---- MODULE Spec2Model ----
(***************************************************************************)
(* A model of despasito/thermodynamics/calc.py: the numerical core that    *)
(* wraps an equation of state (EOS) to solve vapour-liquid equilibrium.    *)
(*                                                                         *)
(* The EOS (pressure, density_max, fugacity_coefficient) is a black box:   *)
(* what it returns is drawn from small sets.  Floating-point numbers are   *)
(* exact rationals <<n, d>> with d >= 0; <<0, 0>> is NaN and <<1, 0>>,     *)
(* <<-1, 0>> are the infinities, so that 0/0, inf - inf and 1/0 come out   *)
(* as numpy computes them.  A numpy array is a sequence of such numbers.   *)
(* The interpolating splines of scipy are modelled by the piecewise-linear *)
(* interpolant through the same samples: it has a root where the samples   *)
(* change sign and an extremum where their differences change sign.        *)
(***************************************************************************)
EXTENDS Integers, Sequences, FiniteSets, TLC

VARIABLES
    inp,        \* the arguments of the call and the EOS it is made with
    call,       \* the call made: the function and its outcome
    xi_global,  \* module-level global of calc.py (liquid composition guess)
    yi_global   \* module-level global of calc.py (vapour composition guess)

vars == <<inp, call, xi_global, yi_global>>

\* Number of densities the default density grid of PvsRho holds.
NSamples == 5

----------------------------------------------------------------------------
(* Floating-point arithmetic on rationals.                                 *)

NaN == <<0, 0>>
Zero == <<0, 1>>
One == <<1, 1>>
Inf == <<1, 0>>

IsNaN(r) == r[1] = 0 /\ r[2] = 0
IsFinite(r) == r[2] > 0

Abs(n) == IF n < 0 THEN -n ELSE n
Sign(n) == IF n < 0 THEN -1 ELSE IF n > 0 THEN 1 ELSE 0

RECURSIVE Gcd(_, _)
Gcd(a, b) == IF b = 0 THEN a ELSE Gcd(b, a % b)

\* Lowest terms, positive denominator; a zero denominator keeps only the sign.
Norm(r) ==
    IF r[2] = 0 THEN <<Sign(r[1]), 0>>
    ELSE LET s == Sign(r[2])
             g == Gcd(Abs(r[1]), Abs(r[2]))
         IN  <<(s * r[1]) \div g, (s * r[2]) \div g>>

Int2Rat(n) == <<n, 1>>

RatAdd(a, b) ==
    IF IsNaN(a) \/ IsNaN(b) THEN NaN
    ELSE IF a[2] = 0 /\ b[2] = 0 THEN (IF a[1] = b[1] THEN a ELSE NaN)
    ELSE IF a[2] = 0 THEN a
    ELSE IF b[2] = 0 THEN b
    ELSE LET g == Gcd(a[2], b[2])
         IN  Norm(<<a[1] * (b[2] \div g) + b[1] * (a[2] \div g),
                    (a[2] \div g) * b[2]>>)

RatNeg(a) == <<-a[1], a[2]>>
RatSub(a, b) == RatAdd(a, RatNeg(b))
RatMul(a, b) ==
    IF IsNaN(a) \/ IsNaN(b) THEN NaN
    ELSE IF a[1] = 0 \/ b[1] = 0 \/ a[2] = 0 \/ b[2] = 0
    THEN Norm(<<a[1] * b[1], a[2] * b[2]>>)
    ELSE LET g1 == Gcd(Abs(a[1]), b[2])
             g2 == Gcd(Abs(b[1]), a[2])
         IN  Norm(<<(a[1] \div g1) * (b[1] \div g2),
                    (a[2] \div g2) * (b[2] \div g1)>>)

\* 1.0 / a on numpy floats: 1/0 is inf, 1/inf is 0, 1/NaN is NaN.
Recip(a) ==
    IF IsNaN(a) THEN NaN
    ELSE IF a[1] = 0 THEN Inf
    ELSE Norm(<<a[2] * Sign(a[1]), Abs(a[1])>>)

RatDiv(a, b) ==
    IF IsNaN(a) \/ IsNaN(b) THEN NaN
    ELSE IF b[1] = 0 /\ b[2] # 0 THEN Norm(<<a[1], 0>>)
    ELSE RatMul(a, Recip(b))

\* Comparisons with NaN are False, as in IEEE arithmetic.
RatLT(a, b) ==
    /\ ~IsNaN(a)
    /\ ~IsNaN(b)
    /\ IF a[2] = 0 /\ b[2] = 0 THEN a[1] < b[1]
       ELSE IF a[2] = 0 \/ b[2] = 0 THEN a[1] * b[2] < b[1] * a[2]
       ELSE LET g == Gcd(a[2], b[2])
            IN  a[1] * (b[2] \div g) < b[1] * (a[2] \div g)

RatLE(a, b) == ~IsNaN(a) /\ ~IsNaN(b) /\ ~RatLT(b, a)
RatEq(a, b) == ~IsNaN(a) /\ ~IsNaN(b) /\ a = b
RatMax(a, b) == IF RatLT(a, b) THEN b ELSE a

\* F applied to the value of v.  v is evaluated once and F works on the
\* result, as the statement `x = v` of the program evaluates v once.
Bind(v, F(_)) == CHOOSE r \in {F(x) : x \in {v}} : TRUE

\* Sequences (numpy arrays, Python lists).
Range(s) == {s[i] : i \in 1..Len(s)}
Reverse(s) == [i \in 1..Len(s) |-> s[Len(s) + 1 - i]]
AnyNaN(s) == \E i \in 1..Len(s) : IsNaN(s[i])
Last(s) == s[Len(s)]
Shift(Plist, P) == [i \in 1..Len(Plist) |-> RatSub(Plist[i], P)]

\* The smallest and the largest entry of a non-empty array without NaN.
MinOf(s) == CHOOSE x \in Range(s) : \A y \in Range(s) : RatLE(x, y)
MaxOf(s) == CHOOSE x \in Range(s) : \A y \in Range(s) : RatLE(y, x)

\* Python's builtin min over an array: the first entry, replaced by each
\* later entry that compares smaller (a comparison with NaN is False).
RECURSIVE PyMinFrom(_, _, _)
PyMinFrom(s, i, cur) ==
    IF i > Len(s) THEN cur
    ELSE PyMinFrom(s, i + 1, IF RatLT(s[i], cur) THEN s[i] ELSE cur)
PyMin(s) == PyMinFrom(s, 2, s[1])

----------------------------------------------------------------------------
(* Inputs: what the caller passes and what the black-box EOS returns.      *)

\* Pressures [Pa] the EOS returns for a density, and target pressures.  The
\* targets lie between the levels, so a shifted sample is never exactly 0.
PLevels == {<<-30, 1>>, <<10, 1>>, <<30, 1>>}
PTargets == {<<-20, 1>>, <<20, 1>>}

\* eos.pressure(rholist, T, xi) as an array over the ascending densities:
\* a curve without plateaus, or a curve with NaN at some densities.
FiniteCurves ==
    {c \in [1..NSamples -> PLevels] : \A i \in 1..(NSamples - 1) : c[i] # c[i + 1]}
NaNCurves ==
    {[i \in 1..NSamples |-> IF i = k THEN NaN ELSE <<10, 1>>] : k \in 1..NSamples}

\* Curves a + b*|i - k| over the densities i: ramps (k = 0) that rise, fall,
\* stay above or stay below the targets, and curves with one turning point.
ShapeParams ==
    {<<-4, 7, 0>>, <<31, -7, 0>>, <<30, 3, 0>>, <<-40, 1, 0>>,
     <<38, -14, 2>>, <<-4, 14, 2>>, <<38, -14, 4>>}
ShapedCurves ==
    {[i \in 1..NSamples |-> <<p[1] + p[2] * Abs(i - p[3]), 1>>] : p \in ShapeParams}

\* eos.density_max(xi, T), in units of the default density increment.
DensityMax == <<NSamples + 1, 1>>

\* rhodict, the caller's options of PvsRho: the default grid (densities
\* 1..NSamples), a grid whose sparse end is re-sampled at uniform volume
\* spacing, and an increment larger than the density range.
RhoDefault ==
    [minrhofrac |-> <<1, NSamples + 1>>, rhoinc |-> One, vspacemax |-> One]
RhoResample == [RhoDefault EXCEPT !.vspacemax = <<1, 4>>]
RhoCoarse == [RhoDefault EXCEPT !.rhoinc = <<NSamples + 1, 1>>]
RhoDicts == {RhoDefault, RhoResample, RhoCoarse}

----------------------------------------------------------------------------
(* PvsRho: the pressure-density curve.                                     *)

RECURSIVE Arange(_, _, _)
Arange(lo, hi, inc) ==
    IF RatLT(lo, hi) THEN <<lo>> \o Arange(RatAdd(lo, inc), hi, inc) ELSE <<>>

\* rholist after the spacing check: where consecutive specific volumes are
\* further apart than vspacemax, the low-density end is re-sampled at
\* uniform volume spacing.
Resample(r0, minrho, vspacemax) ==
    LET vspace == [i \in 1..(Len(r0) - 1) |->
                      RatSub(Recip(r0[i]), Recip(r0[i + 1]))]
        wide == {i \in 1..(Len(r0) - 1) : RatLT(vspacemax, vspace[i])}
    IN  IF wide = {} THEN r0
        ELSE LET sw == CHOOSE i \in wide : \A j \in wide : j <= i
                 v2 == Arange(Recip(r0[sw + 1]), Recip(minrho), vspacemax)
                 r2 == [i \in 1..Len(v2) |-> Recip(Reverse(v2)[i])]
             IN  r2 \o SubSeq(r0, sw + 2, Len(r0))

\* [exc, vlist, Plist, ncalls]: vlist ascending, Plist the pressure at each
\* volume, ncalls the number of eos.pressure calls made.
PvsRho(eos, rhodict) ==
    Bind(eos.density_max, LAMBDA maxrho :
    Bind(RatMul(maxrho, rhodict.minrhofrac), LAMBDA minrho :
    Bind(Arange(minrho, maxrho, rhodict.rhoinc), LAMBDA r0 :
    IF RatLT(RatSub(maxrho, minrho), rhodict.rhoinc) \/ Len(r0) < 2
    THEN [exc |-> "ValueError", vlist |-> <<>>, Plist |-> <<>>, ncalls |-> 0]
    ELSE
    Bind(Resample(r0, minrho, rhodict.vspacemax), LAMBDA rholist :
    Bind([i \in 1..Len(rholist) |-> eos.pressure[i]], LAMBDA P :
        [exc |-> "none",
         vlist |-> [i \in 1..Len(rholist) |-> Recip(rholist[Len(rholist) + 1 - i])],
         Plist |-> Reverse(P),
         ncalls |-> 1])))))

----------------------------------------------------------------------------
(* PvsV_spline: roots and extrema of the interpolating spline.             *)

\* The root of the interpolant between samples i and i+1 of opposite sign.
RootBetween(vlist, Plist, i) ==
    Bind(RatDiv(Plist[i], RatSub(Plist[i], Plist[i + 1])), LAMBDA t :
        RatAdd(vlist[i], RatMul(RatSub(vlist[i + 1], vlist[i]), t)))

RECURSIVE RootsFrom(_, _, _)
RootsFrom(vlist, Plist, i) ==
    IF i > Len(vlist) THEN <<>>
    ELSE (IF Plist[i] = Zero THEN <<vlist[i]>>
          ELSE IF i < Len(vlist) /\ RatLT(RatMul(Plist[i], Plist[i + 1]), Zero)
          THEN <<RootBetween(vlist, Plist, i)>>
          ELSE <<>>)
         \o RootsFrom(vlist, Plist, i + 1)

RECURSIVE ExtremaFrom(_, _, _)
ExtremaFrom(vlist, Plist, i) ==
    IF i >= Len(vlist) THEN <<>>
    ELSE (IF RatLT(RatMul(RatSub(Plist[i], Plist[i - 1]),
                          RatSub(Plist[i + 1], Plist[i])), Zero)
          THEN <<vlist[i]>>
          ELSE <<>>)
         \o ExtremaFrom(vlist, Plist, i + 1)

\* The spline evaluated at v, a sample volume or a volume between two samples.
Pvspline(vlist, Plist, v0) ==
    Bind(v0, LAMBDA v :
    IF \E i \in 1..Len(vlist) : vlist[i] = v
    THEN Plist[CHOOSE i \in 1..Len(vlist) : vlist[i] = v]
    ELSE
    Bind(CHOOSE j \in 1..(Len(vlist) - 1) :
            RatLT(vlist[j], v) /\ RatLT(v, vlist[j + 1]), LAMBDA i :
    Bind(RatDiv(RatSub(v, vlist[i]), RatSub(vlist[i + 1], vlist[i])),
         LAMBDA t :
        RatAdd(Plist[i], RatMul(RatSub(Plist[i + 1], Plist[i]), t)))))

\* [roots, extrema]: at most the first two extrema are kept, and the roots
\* are [NaN] when any pressure is NaN.
PvsV_splineKeepsRoots(vlist, Plist) ==
    Bind(ExtremaFrom(vlist, Plist, 2), LAMBDA e :
        [roots |-> RootsFrom(vlist, Plist, 1),
         extrema |-> IF Len(e) > 2 THEN SubSeq(e, 1, 2) ELSE e])
PvsV_spline(vlist, Plist) ==
    Bind(ExtremaFrom(vlist, Plist, 2), LAMBDA e :
        [roots |-> IF AnyNaN(Plist) THEN <<NaN>> ELSE RootsFrom(vlist, Plist, 1),
         extrema |-> IF Len(e) > 2 THEN SubSeq(e, 1, 2) ELSE e])

----------------------------------------------------------------------------
(* Library calls.                                                          *)

\* spo.minimize (L-BFGS-B) of a function of one variable within bounds
\* [(lb, ub)]: ValueError when lb > ub; otherwise a point of [lb, ub], here
\* the lower bound, the start value projected onto the bounds, or the upper
\* bound.
OptPicks == {"lb", "x0", "ub"}
MinimizeBounded(x0_, lb_, ub_, pick) ==
    Bind(x0_, LAMBDA x0 : Bind(lb_, LAMBDA lb : Bind(ub_, LAMBDA ub :
    IF RatLT(ub, lb) THEN [exc |-> "ValueError", x |-> NaN]
    ELSE [exc |-> "none",
          x |-> IF pick = "lb" THEN lb
                ELSE IF pick = "ub" THEN ub
                ELSE IF RatLT(x0, lb) THEN lb
                ELSE IF RatLT(ub, x0) THEN ub
                ELSE IF IsNaN(x0) THEN lb
                ELSE x0])))

\* -yroot/slope of np.polyfit over the last four samples: where the straight
\* line through the tail of the curve crosses zero.  Any real number.
VrootVals == {<<-1, 1>>, <<1, 100>>, <<2, 1>>}

\* np.finfo(float).eps, a tiny positive number.
Eps == <<1, 1000000>>

\* eos.beads[ind] with ind the index array np.where returns.  The EOS hands
\* over beads as it was given them: a Python list (test_thermo.py builds its
\* EOS from one) raises TypeError when indexed by an array, a numpy array
\* yields the selected names.
BeadsKinds == {"list", "ndarray"}
BeadsIndexed(beads, ind) == IF beads = "list" THEN "TypeError" ELSE "ok"

----------------------------------------------------------------------------
(* calc_Psat: saturation pressure of a pure component.                     *)

Pconverged == 10

CountNonzero(xi) == Cardinality({i \in 1..Len(xi) : xi[i] # Zero})
CountAbove(xi, t) == Cardinality({i \in 1..Len(xi) : RatLT(t, xi[i])})

\* The check of the composition: the exception it raises, or "none".  The
\* second message formats eos.beads[ind] before it raises.
PsatValidation(xi, eos) ==
    IF CountNonzero(xi) # 1
    THEN IF CountAbove(xi, <<1, 10>>) # 1
         THEN "ValueError"
         ELSE LET ind == {i \in 1..Len(xi) : RatLT(<<1, 10>>, xi[i])}
                  bead == BeadsIndexed(eos.beads, ind)
              IN  IF bead = "TypeError" THEN "TypeError" ELSE "ValueError"
    ELSE "none"

\* The curve has no van der Waals loop: the component is supercritical.
NoCubicOnlyNaN(sp) == Len(sp.extrema) = 0 \/ AnyNaN(sp.roots)
NoCubic(sp) ==
    Len(sp.extrema) = 0 \/ Len(sp.extrema) < 2 \/ AnyNaN(sp.roots)

\* (Pminsearch, Pmaxsearch), the bounds of the search for Psat.
PsatSearchBounds(Plist) ==
    LET n == Len(Plist)
        rising == {i \in 1..(n - 1) : RatLT(Plist[i], Plist[i + 1])}
        ind_Pmin1 == CHOOSE i \in rising : \A j \in rising : i <= j
        top == MaxOf(SubSeq(Plist, ind_Pmin1, n))
        ind_Pmax1 == CHOOSE i \in ind_Pmin1..n :
                        /\ Plist[i] = top
                        /\ \A j \in ind_Pmin1..(i - 1) : Plist[j] # top
    IN  [lo |-> RatMax(Int2Rat(Pconverged),
                       MinOf(SubSeq(Plist, ind_Pmin1, ind_Pmax1 - 1))),
         hi |-> Plist[ind_Pmax1]]

\* eq_area reads a and b, which it assigns only when the shifted curve has
\* two roots or more: with fewer it raises UnboundLocalError.
EqAreaRaises(shift, Pv, vlist) ==
    Bind(PvsV_spline(vlist, Shift(Pv, shift)).roots, LAMBDA roots :
        ~(Len(roots) >= 3 \/ Len(roots) = 2))

\* spo.minimize_scalar(eq_area, bounds, method='bounded'): a pressure within
\* the bounds.
PsatPicks == {"lo", "mid", "hi"}
MinimizeScalar(lo, hi, pick) ==
    IF pick = "lo" THEN lo
    ELSE IF pick = "hi" THEN hi
    ELSE RatMul(RatAdd(lo, hi), <<1, 2>>)

\* With two roots of the shifted curve, the third root, extrapolated from
\* the tail and refined within bounds: [exc, v].
ThirdRoot(roots, vroot0, pick) ==
    Bind(IF RatLT(vroot0, Zero) THEN Eps ELSE vroot0, LAMBDA vroot :
    Bind(MinimizeBounded(Recip(vroot),
                         Recip(RatMul(vroot, <<100, 1>>)),
                         Recip(RatMul(<<11, 10>>, Last(roots))),
                         pick), LAMBDA rho_tmp :
        [exc |-> rho_tmp.exc, v |-> Recip(rho_tmp.x)]))

\* The triple calc_Psat returns: Psat, rholsat, rhogsat.
PsatReturnSwapped(Psat, roots) == <<Psat, Recip(roots[3]), Recip(roots[1])>>
PsatReturn(Psat, roots) == <<Psat, Recip(roots[1]), Recip(roots[3])>>

\* What the library calls of one calc_Psat call return.
PsatLibs == [Psat : PsatPicks, vroot : VrootVals, opt : OptPicks]

PsatOut(exc, ret, ncalls, minimized, nextrema, nroots) ==
    [exc |-> exc, ret |-> ret, ncalls |-> ncalls, minimized |-> minimized,
     nextrema |-> nextrema, nroots |-> nroots]

\* exc: the exception raised, or "none"; ret: the triple returned; ncalls:
\* the eos.pressure calls made; minimized: the equal-area search was run;
\* nextrema: the extrema of the curve; nroots: the roots of the curve shifted
\* by Psat (-1 before that point).
calc_Psat(xi, eos, rhodict, lib) ==
    Bind(PsatValidation(xi, eos), LAMBDA invalid :
    IF invalid # "none" THEN PsatOut(invalid, <<>>, 0, FALSE, -1, -1)
    ELSE
    Bind(PvsRho(eos, rhodict), LAMBDA pv :
    IF pv.exc # "none" THEN PsatOut(pv.exc, <<>>, pv.ncalls, FALSE, -1, -1)
    ELSE
    Bind(PvsV_spline(pv.vlist, pv.Plist), LAMBDA sp :
    Bind(Len(sp.extrema), LAMBDA nx :
    IF NoCubic(sp)
    THEN PsatOut("none", PsatReturn(NaN, <<One, One, One>>), 1, FALSE, nx, -1)
    ELSE
    Bind(PsatSearchBounds(pv.Plist), LAMBDA b :
    IF RatLT(b.hi, b.lo) THEN PsatOut("ValueError", <<>>, 1, TRUE, nx, -1)
    ELSE
    Bind(MinimizeScalar(b.lo, b.hi, lib.Psat), LAMBDA Psat :
    Bind(PvsV_spline(pv.vlist, Shift(pv.Plist, Psat)).roots, LAMBDA roots :
    IF EqAreaRaises(Psat, pv.Plist, pv.vlist)
    THEN PsatOut("UnboundLocalError", <<>>, 1, TRUE, nx, Len(roots))
    ELSE IF Len(roots) = 2
    THEN Bind(ThirdRoot(roots, lib.vroot, lib.opt), LAMBDA t :
         IF t.exc # "none"
         THEN PsatOut(t.exc, <<>>, 1, TRUE, nx, 2)
         ELSE PsatOut("none", PsatReturn(Psat, Append(roots, t.v)),
                      2, TRUE, nx, 2))
    ELSE PsatOut("none", PsatReturn(Psat, roots), 1, TRUE, nx,
                 Len(roots)))))))))

\* Whether a calc_Psat call consults the optimisers at all.
PsatSearches(xi, eos, rhodict) ==
    /\ PsatValidation(xi, eos) = "none"
    /\ Bind(PvsRho(eos, rhodict), LAMBDA pv :
            /\ pv.exc = "none"
            /\ ~NoCubic(PvsV_spline(pv.vlist, pv.Plist)))

----------------------------------------------------------------------------
(* calc_rhov, calc_rhol: the density of a phase at a target pressure and   *)
(* the tag of the phase found (0 vapour, 1 liquid, 2 critical fluid,       *)
(* 3 no fluid, 4 assume ideal gas).                                        *)

\* The lower density bound 1e-28 handed to spo.minimize: a tiny positive
\* number, here one that 32-bit arithmetic can hold.
Tiny == <<1, 1000>>

\* What the library and the EOS return during one density call:
\*   ext      the sign of Pvspline(1/vlist[-1]), the spline extrapolated far
\*            outside the volumes it was fitted on;
\*   vroot    -yroot/slope of np.polyfit over the tail of the curve;
\*   opt      the point spo.minimize or spo.brentq settles on;
\*   bracket  whether Pdiff changes sign over the +-1% bracket;
\*   resid    whether the EOS pressure at a density that brentq did not
\*            refine happens to equal the target within the tolerance.
ExtSigns == {-1, 0, 1}
DensityLibs ==
    [ext : ExtSigns, vroot : VrootVals, opt : OptPicks,
     bracket : BOOLEAN, resid : BOOLEAN]

\* The outcome of the assessment of the roots.  flag -1: flag and rho_tmp
\* were never assigned.
Cls(exc, rho, flag, NoOpt) ==
    [exc |-> exc, rho |-> rho, flag |-> flag, NoOpt |-> NoOpt]

\* The tag of the branch that extrapolates a vapour root: the optimiser's
\* result is NaN when the call raised.
IdealGasFlagAlwaysVapor(rho_tmp) == 0
IdealGasFlag(rho_tmp) == IF IsNaN(rho_tmp) THEN 4 ELSE 0

\* The vapour density extrapolated from the tail when the curve has no root
\* and lies above vacuum.  The bounds are built from roots[-1] inside the
\* try block: with an empty list that raises IndexError, which the bare
\* except turns into NaN.
ExtrapolatedVapor(roots, lib) ==
    IF Len(roots) = 0 THEN NaN
    ELSE Bind(MinimizeBounded(Recip(lib.vroot), Tiny,
                              Recip(RatMul(<<11, 10>>, Last(roots))),
                              lib.opt), LAMBDA m :
             IF m.exc # "none" THEN NaN ELSE m.x)

\* The density at the dense end of the curve, optimised within
\* (1e-28, 0.99 density_max); the start value when the optimiser raises.
DenseEnd(vlist, eos, lib) ==
    Bind(MinimizeBounded(Recip(vlist[1]), Tiny,
                         RatMul(eos.density_max, <<99, 100>>), lib.opt),
         LAMBDA m : IF m.exc # "none" THEN Recip(vlist[1]) ELSE m.x)

\* Lines 506-577 of calc_rhov.  Plist is the curve shifted by P.
ClassifyVapor(P, vlist, Plist, sp, eos, lib) ==
    LET roots == sp.roots
        extrema == sp.extrema
        l_roots == Len(roots)
    IN
    IF AnyNaN(roots) THEN Cls("none", NaN, 3, FALSE)
    ELSE IF l_roots = 0
    THEN IF lib.ext < 0
         THEN Cls("none", DenseEnd(vlist, eos, lib),
                  IF Len(extrema) = 0 THEN 2 ELSE 1, TRUE)
         ELSE IF RatLT(Zero, RatAdd(PyMin(Plist), P))
         THEN Bind(ExtrapolatedVapor(roots, lib), LAMBDA rho_tmp :
                  Cls("none", rho_tmp, IdealGasFlag(rho_tmp), FALSE))
         ELSE Cls("none", NaN, 3, FALSE)
    ELSE IF l_roots = 1
    THEN IF Len(extrema) = 0
         THEN Cls("none", Recip(roots[1]), 2, FALSE)
         ELSE IF RatLT(RatAdd(Pvspline(vlist, Plist, MaxOf(extrema)), P),
                       RatAdd(Pvspline(vlist, Plist, roots[1]), P))
         THEN Cls("none", Recip(roots[1]), 1, FALSE)
         ELSE IF Len(extrema) > 1
         THEN Cls("none", Recip(roots[1]), 0, FALSE)
         ELSE Cls("UnboundLocalError", NaN, -1, FALSE)
    ELSE IF l_roots = 2
    THEN IF RatLT(RatAdd(Pvspline(vlist, Plist, roots[1]), P), Zero)
         THEN Cls("none", Recip(roots[1]), 1, FALSE)
         ELSE Bind(MinimizeBounded(Recip(lib.vroot), Tiny,
                                   Recip(RatMul(<<11, 10>>, Last(roots))),
                                   lib.opt), LAMBDA m :
                  IF m.exc # "none" THEN Cls(m.exc, NaN, -1, FALSE)
                  ELSE Cls("none", m.x, 0, FALSE))
    ELSE Cls("none", Recip(roots[3]), 0, FALSE)

\* What a density function returns.  refined: how the refinement treated
\* the estimate ("none": the tag is not one the function refines); Pmatch:
\* the EOS pressure at rho equals the target within the tolerance.
DensityOut(exc, rho_tmp, flag, refined, lib) ==
    Bind(rho_tmp, LAMBDA rho :
        [exc |-> exc, rho |-> rho, flag |-> flag, refined |-> refined,
         Pmatch |-> IF refined = "brentq" THEN TRUE
                    ELSE ~IsNaN(rho) /\ lib.resid])

\* spo.brentq over a bracket with a sign change: a point of the bracket.
Brentq(lo, hi, x0, pick) ==
    IF pick = "lb" THEN lo ELSE IF pick = "ub" THEN hi
    ELSE IF RatLT(lo, x0) /\ RatLT(x0, hi) THEN x0
    ELSE RatMul(RatAdd(lo, hi), <<1, 2>>)

\* The outcome of a density function together with est, the density
\* estimate (rho_tmp) the assessment of the roots handed to the refinement.
WithEstimate(out, est) ==
    [exc |-> out.exc, rho |-> out.rho, flag |-> out.flag,
     refined |-> out.refined, Pmatch |-> out.Pmatch, est |-> est]

\* Lines 579-591 of calc_rhov.
RefineVaporAlwaysMinimizes(c, Plist, eos, lib) ==
    IF c.flag \notin {0, 2} THEN DensityOut("none", c.rho, c.flag, "none", lib)
    ELSE IF lib.bracket
    THEN DensityOut("none", c.rho, c.flag, "brentq", lib)
    ELSE DensityOut("none", eos.density_max, c.flag, "minimize", lib)
RefineVapor(c, Plist, eos, lib) ==
    IF c.flag \notin {0, 2} THEN DensityOut("none", c.rho, c.flag, "none", lib)
    ELSE
    Bind(RatMul(c.rho, <<99, 100>>), LAMBDA lo :
    Bind(RatMul(c.rho, <<101, 100>>), LAMBDA hi0 :
    Bind(RatMul(eos.density_max, <<9999, 10000>>), LAMBDA cap :
    Bind(IF RatLT(cap, hi0) THEN cap ELSE hi0, LAMBDA hi :
    IF lib.bracket
    THEN DensityOut("none", Brentq(lo, hi, c.rho, lib.opt), c.flag, "brentq", lib)
    ELSE IF RatLT(Plist[1], Zero)
    THEN DensityOut("none", c.rho, c.flag, "approximate", lib)
    ELSE IF ~c.NoOpt
    THEN Bind(MinimizeBounded(c.rho, Tiny,
                              RatMul(eos.density_max, <<99, 100>>), lib.opt),
              LAMBDA m : DensityOut(m.exc, m.x, c.flag, "minimize", lib))
    ELSE DensityOut("none", c.rho, c.flag, "noopt", lib)))))

calc_rhov(P, xi, eos, rhodict, lib) ==
    Bind(PvsRho(eos, rhodict), LAMBDA pv :
    IF pv.exc # "none"
    THEN WithEstimate(DensityOut(pv.exc, NaN, -1, "none", lib), NaN)
    ELSE
    Bind(Shift(pv.Plist, P), LAMBDA Plist :
    Bind(PvsV_spline(pv.vlist, Plist), LAMBDA sp :
    Bind(ClassifyVapor(P, pv.vlist, Plist, sp, eos, lib), LAMBDA c :
        IF c.exc # "none"
        THEN WithEstimate(DensityOut(c.exc, NaN, -1, "none", lib), NaN)
        ELSE WithEstimate(RefineVapor(c, Plist, eos, lib), c.rho)))))

\* One pass of the loop of interp_vroot over ind_array (0-based indices):
\* the first index at or after a where sgn * Plist is negative; brk when
\* there is none beyond a itself.
VrootStep(Plist, a, sgn) ==
    IF a + 1 < Len(Plist)
    THEN LET tmp == {j - a : j \in {k \in a..(Len(Plist) - 1) :
                         RatLT(RatMul(Plist[k + 1], Int2Rat(sgn)), Zero)}}
         IN  IF \E r \in tmp : r # 0
             THEN [val |-> a + (CHOOSE r \in tmp : \A q \in tmp : r <= q),
                   brk |-> FALSE]
             ELSE [val |-> 0, brk |-> TRUE]
    ELSE [val |-> 0, brk |-> FALSE]

\* interp_vroot: [exc, v].  ind is read unassigned when no index is found.
interp_vroot(v0, vlist, Plist) ==
    Bind(VrootStep(Plist, 0, 1), LAMBDA s1 :
    Bind(IF s1.brk THEN s1 ELSE VrootStep(Plist, s1.val, -1), LAMBDA s2 :
    Bind(IF s2.brk THEN s2 ELSE VrootStep(Plist, s2.val, 1), LAMBDA s3 :
    Bind(SelectSeq(<<s1.val, s2.val, s3.val>>, LAMBDA a : a > 0),
         LAMBDA ind_array :
    Bind(Len(ind_array), LAMBDA Nind :
    IF Nind = 0 THEN [exc |-> "UnboundLocalError", v |-> NaN]
    ELSE
    Bind([k \in 1..Nind |->
             Bind(RatSub(vlist[ind_array[k] + 1], v0), LAMBDA d :
                 IF RatLT(d, Zero) THEN RatNeg(d) ELSE d)],
         LAMBDA dist :
    Bind(CHOOSE k \in 1..Nind :
            /\ \A q \in 1..Nind : RatLE(dist[k], dist[q])
            /\ \A q \in 1..(k - 1) : dist[q] # dist[k], LAMBDA ind_tmp :
    Bind(IF Nind = 1 THEN ind_array[1] ELSE ind_array[ind_tmp], LAMBDA ind :
    Bind(RatDiv(RatSub(Plist[ind + 1], Plist[ind]),
                RatSub(vlist[ind + 1], vlist[ind])), LAMBDA m :
    Bind(RatSub(Plist[ind + 1], RatMul(m, vlist[ind + 1])), LAMBDA b :
        IF RatLT(v0, vlist[ind]) \/ RatLT(vlist[ind + 1], v0)
        THEN [exc |-> "none", v |-> RatDiv(RatNeg(m), b)]
        ELSE [exc |-> "none", v |-> v0]))))))))))

\* Lines 641-709 of calc_rhol.  Plist is the curve shifted by P.
ClassifyLiquid(P, vlist, Plist, sp, eos, lib) ==
    LET roots == sp.roots
        extrema == sp.extrema
        l_roots == Len(roots)
    IN
    IF AnyNaN(roots) THEN Cls("none", NaN, 3, FALSE)
    ELSE IF l_roots = 0
    THEN IF lib.ext # 0
         THEN Cls("none", DenseEnd(vlist, eos, lib),
                  IF Len(extrema) = 0 THEN 2 ELSE 1, TRUE)
         ELSE IF RatLT(Zero, RatAdd(PyMin(Plist), P))
         THEN Bind(ExtrapolatedVapor(roots, lib), LAMBDA rho_tmp :
                  Cls("none", rho_tmp, IdealGasFlag(rho_tmp), FALSE))
         ELSE Cls("none", NaN, 3, FALSE)
    ELSE IF l_roots = 2
    THEN Cls("none", Recip(roots[1]), 1, FALSE)
    ELSE IF l_roots = 1
    THEN IF Len(extrema) = 0
         THEN Bind(interp_vroot(roots[1], vlist, Plist), LAMBDA iv :
                  Cls(iv.exc, Recip(iv.v), 2, FALSE))
         ELSE IF RatLT(RatAdd(Pvspline(vlist, Plist, MaxOf(extrema)), P),
                       RatAdd(Pvspline(vlist, Plist, roots[1]), P))
         THEN Cls("none", Recip(roots[1]), 1, FALSE)
         ELSE IF Len(extrema) > 1
         THEN Cls("none", Recip(roots[1]), 0, FALSE)
         ELSE Cls("UnboundLocalError", NaN, -1, FALSE)
    ELSE Cls("none", Recip(roots[1]), 1, FALSE)

\* Lines 711-720 of calc_rhol.
RefineLiquid(c, Plist, eos, lib) ==
    IF c.flag \notin {1, 2} THEN DensityOut("none", c.rho, c.flag, "none", lib)
    ELSE
    Bind(RatMul(c.rho, <<99, 100>>), LAMBDA lo :
    Bind(RatMul(c.rho, <<101, 100>>), LAMBDA hi :
    IF lib.bracket
    THEN DensityOut("none", Brentq(lo, hi, c.rho, lib.opt), c.flag, "brentq", lib)
    ELSE IF RatLT(Plist[1], Zero)
    THEN DensityOut("none", c.rho, c.flag, "approximate", lib)
    ELSE IF ~c.NoOpt
    THEN Bind(MinimizeBounded(c.rho, Tiny,
                              RatMul(eos.density_max, <<99, 100>>), lib.opt),
              LAMBDA m : DensityOut(m.exc, m.x, c.flag, "minimize", lib))
    ELSE DensityOut("none", c.rho, c.flag, "noopt", lib)))

calc_rhol(P, xi, eos, rhodict, lib) ==
    Bind(PvsRho(eos, rhodict), LAMBDA pv :
    IF pv.exc # "none"
    THEN WithEstimate(DensityOut(pv.exc, NaN, -1, "none", lib), NaN)
    ELSE
    Bind(Shift(pv.Plist, P), LAMBDA Plist :
    Bind(PvsV_spline(pv.vlist, Plist), LAMBDA sp :
    Bind(ClassifyLiquid(P, pv.vlist, Plist, sp, eos, lib), LAMBDA c :
        IF c.exc # "none"
        THEN WithEstimate(DensityOut(c.exc, NaN, -1, "none", lib), NaN)
        ELSE WithEstimate(RefineLiquid(c, Plist, eos, lib), c.rho)))))

----------------------------------------------------------------------------
(* calc_phiv, calc_phil: fugacity coefficients of a phase.                 *)

\* eos.fugacity_coefficient(P, rho, xi, T): one coefficient per component;
\* NaN throughout when the density handed over is NaN.
fugacity_coefficient(eos, rho, xi) ==
    [i \in 1..Len(xi) |-> IF IsNaN(rho) THEN NaN ELSE eos.phi]

\* What a fugacity function returns.  fugrho: the densities
\* eos.fugacity_coefficient was called with.
PhiOut(exc, phi, d, rho, fugrho) ==
    [exc |-> exc, phi |-> phi, rho |-> rho, flag |-> d.flag,
     refined |-> d.refined, fugrho |-> fugrho]

calc_phiv(P, yi, eos, rhodict, lib) ==
    Bind(calc_rhov(P, yi, eos, rhodict, lib), LAMBDA d :
    IF d.exc # "none" THEN PhiOut(d.exc, <<>>, d, NaN, <<>>)
    ELSE IF d.flag = 4
    THEN PhiOut("none", [i \in 1..Len(yi) |-> One], d, Zero, <<>>)
    ELSE IF d.flag = 3
    THEN PhiOut("none", <<NaN, NaN>>, d, d.rho, <<>>)
    ELSE PhiOut("none", fugacity_coefficient(eos, d.rho, yi), d, d.rho,
                <<d.rho>>))

calc_phil(P, xi, eos, rhodict, lib) ==
    Bind(calc_rhol(P, xi, eos, rhodict, lib), LAMBDA d :
    IF d.exc # "none" THEN PhiOut(d.exc, <<>>, d, NaN, <<>>)
    ELSE IF d.flag = 3
    THEN PhiOut("none", <<NaN, NaN>>, d, d.rho, <<>>)
    ELSE PhiOut("none", fugacity_coefficient(eos, d.rho, xi), d, d.rho,
                <<d.rho>>))

\* The library outcomes a density call with these arguments can consult.
DensityLibsFor(P, eos, rhodict) ==
    Bind(PvsRho(eos, rhodict), LAMBDA pv :
    Bind(CHOOSE l \in DensityLibs : TRUE, LAMBDA fixed :
    IF pv.exc # "none" THEN {fixed}
    ELSE
    Bind(PvsV_spline(pv.vlist, Shift(pv.Plist, P)).roots, LAMBDA roots :
        IF AnyNaN(roots) THEN {fixed}
        ELSE {l \in DensityLibs :
                /\ Len(roots) # 0 => l.ext = fixed.ext
                /\ Len(roots) # 2 => l.vroot = fixed.vroot})))

\* A global that was never assigned, and the call not yet made.
Unset == <<>>
NoCall == [fn |-> "none"]

----------------------------------------------------------------------------
(* calc_yT_phase, calc_xT_phase: the public dew-point and bubble-point     *)
(* solvers.  The bracketing procedure, the root finder and the inner       *)
(* composition solves they call are taken by what they hand back and by    *)
(* what they leave in the module-level globals.                            *)

RECURSIVE SumFrom(_, _)
SumFrom(s, i) == IF i > Len(s) THEN Zero ELSE RatAdd(s[i], SumFrom(s, i + 1))
\* np.sum of an array, and the array divided by its sum.
Sum(s) == SumFrom(s, 1)
Normalized(s) == [i \in 1..Len(s) |-> RatDiv(s[i], Sum(s))]

\* Compositions the inner solves settle on, and the array of NaN.
PhaseComps == {<<<<1, 2>>, <<1, 2>>>>, <<<<1, 4>>, <<3, 4>>>>}
NaNComp == <<NaN, NaN>>

\* The tag calc_phiv or calc_phil reports for a composition at the final
\* pressure: the EOS decides, here by whether the first component is the
\* minor one.  t maps that to a tag; a NaN composition or pressure gives 3.
TagOf(t, P, comp) ==
    IF IsNaN(P) \/ AnyNaN(comp) THEN 3 ELSE t[RatLT(comp[1], <<1, 2>>)]

\* "xi_global" not in globals() or any(np.isnan(xi_global))
NeedsGuess(g) == g = Unset \/ AnyNaN(g)

\* What the callees hand back during one call of an entry point:
\*   range   how the bracketing ended: with a bracket, with a NaN range at
\*           its first pressure or at the iteration cap, or raising;
\*   zr      the composition the inner solves of the bracketing left in
\*           the global;
\*   root    whether gtb.solve_root returns or raises when handed NaN;
\*   zs      the composition the inner solve at the final pressure yields.
RangeEnds == {"bracket", "nan_first", "nan_maxiter", "raise"}
PhaseLibs ==
    [range : RangeEnds, zr : PhaseComps, root : {"returns", "raises"},
     zs : PhaseComps]

\* calc_Prange_yi as calc_yT_phase sees it: [exc, Prange, Pguess, xi_global].
\* Ending at the first pressure it stores xi_range in the global; the inner
\* solves store their converged composition there as they go.
calc_Prange_yi(xi, g, lib) ==
    IF lib.range = "bracket"
    THEN [exc |-> "none", Prange |-> <<<<10, 1>>, <<30, 1>>>>,
          Pguess |-> <<20, 1>>, global |-> lib.zr]
    ELSE [exc |-> "none", Prange |-> <<NaN, NaN>>, Pguess |-> NaN,
          global |-> lib.zr]

\* calc_Prange_xi as calc_xT_phase sees it: it raises ValueError when the
\* liquid is not found, and stores yi_range in the global with a bracket.
calc_Prange_xi(yi, g, lib) ==
    IF lib.range = "raise"
    THEN [exc |-> "ValueError", Prange |-> <<>>, Pguess |-> NaN, global |-> g]
    ELSE IF lib.range = "bracket"
    THEN [exc |-> "none", Prange |-> <<<<10, 1>>, <<30, 1>>>>,
          Pguess |-> <<20, 1>>, global |-> lib.zr]
    ELSE [exc |-> "none", Prange |-> <<NaN, NaN>>, Pguess |-> NaN,
          global |-> lib.zr]

\* gtb.solve_root(f, x0, bounds): [exc, P].  With a bracket it returns a
\* pressure of the bracket; what it does with NaN is the library's affair:
\* it raises or it returns NaN.
solve_root(x0, bounds, lib) ==
    IF AnyNaN(bounds) \/ IsNaN(x0)
    THEN IF lib.root = "raises" THEN [exc |-> "RootError", P |-> NaN]
         ELSE [exc |-> "none", P |-> NaN]
    ELSE [exc |-> "none", P |-> x0]

\* The composition solve_P_yiT or solve_P_xiT stores in the global, given
\* the one the inner solve returned: xinew / np.sum(xinew).
SolvedAt(P, lib) == IF IsNaN(P) THEN NaNComp ELSE Normalized(lib.zs)

\* "CH4" in eos.beads[j], "CH3CH3" in eos.beads[j]: substring tests.
HasCH4(bead) == bead \in {"CH4", "CH4_2"}
HasCH3CH3(bead) == bead \in {"CH3CH3"}

\* One pass of the loop of setPsat over a bead with nui > 0: [Psat, NaNbead]
\* after it, given the two before it.  Pressures of the entry points are
\* in kPa: 10377 is the 10377000.0 Pa of the source.
setPsatStep(acc, bead) ==
    IF bead = "CO2" THEN [acc EXCEPT !.Psat = <<10377, 1>>]
    ELSE IF bead = "N2" THEN [acc EXCEPT !.Psat = <<7377, 1>>]
    ELSE IF HasCH4(bead) THEN [acc EXCEPT !.Psat = <<6377, 1>>]
    ELSE IF HasCH3CH3(bead) THEN [acc EXCEPT !.Psat = <<7377, 1>>]
    ELSE [Psat |-> <<7377, 1>>, NaNbead |-> bead]

RECURSIVE setPsatFrom(_, _, _)
setPsatFrom(beads, j, acc) ==
    IF j > Len(beads) THEN acc
    ELSE setPsatFrom(beads, j + 1, setPsatStep(acc, beads[j]))

\* setPsat(ind, eos): [exc, Psat, NaNbead].  beads: the beads of component
\* ind.  Psat is read unassigned when the component has no bead.
setPsat(beads) ==
    Bind(setPsatFrom(beads, 1, [Psat |-> Unset, NaNbead |-> "No NaNbead"]),
         LAMBDA acc :
        IF acc.Psat = Unset
        THEN [exc |-> "UnboundLocalError", Psat |-> NaN, NaNbead |-> ""]
        ELSE [exc |-> "none", Psat |-> acc.Psat, NaNbead |-> acc.NaNbead])

\* The loop over the components at the head of calc_yT_phase and
\* calc_xT_phase: Psat as calc_Psat returned it, each NaN entry replaced by
\* what setPsat gives.  raises: the entry point raises ValueError when the
\* entry is still NaN (calc_yT_phase); calc_xT_phase logs an error.
PsatEstimate(Psat, beads, raises) ==
    Bind(setPsat(beads), LAMBDA sub :
        IF ~AnyNaN(Psat) THEN [exc |-> "none", Psat |-> Psat]
        ELSE IF sub.exc # "none" THEN [exc |-> sub.exc, Psat |-> Psat]
        ELSE IF IsNaN(sub.Psat) /\ raises
        THEN [exc |-> "ValueError", Psat |-> Psat]
        ELSE [exc |-> "none",
              Psat |-> [i \in 1..Len(Psat) |->
                           IF IsNaN(Psat[i]) THEN sub.Psat ELSE Psat[i]]])

\* What an entry point returns and leaves behind.  guess: the companion
\* composition the call started from; rootcall: the x0 and the bounds
\* gtb.solve_root was called with (empty when it was not called); global:
\* the companion global when the call ends.
PhaseOut(exc, ret, guess, nanrange, rootcall, global) ==
    [exc |-> exc, ret |-> ret, guess |-> guess, nanrange |-> nanrange,
     rootcall |-> rootcall, global |-> global]

calc_yT_phase(yi, Psat, Pguess, tagl, tagv, g, lib) ==
    LET P0 == IF RatLT(Pguess, Zero)
              THEN Recip(Sum([i \in 1..Len(yi) |-> RatDiv(yi[i], Psat[i])]))
              ELSE Pguess
        g0 == IF NeedsGuess(g)
              THEN Normalized([i \in 1..Len(yi) |->
                                  RatMul(P0, RatDiv(yi[i], Psat[i]))])
              ELSE g
        xi == g0
        r == calc_Prange_yi(xi, g0, lib)
        s == solve_root(r.Pguess, r.Prange, lib)
        rootcall == <<[x0 |-> r.Pguess, bounds |-> r.Prange]>>
    IN
    IF s.exc # "none"
    THEN PhaseOut(s.exc, <<>>, g0, AnyNaN(r.Prange), rootcall, r.global)
    ELSE
    LET P == s.P
        flagv == TagOf(tagv, P, yi)
        flagl == TagOf(tagl, P, xi)
        obj == IF IsNaN(P) THEN NaN ELSE Zero
    IN  PhaseOut("none", <<P, xi, flagl, flagv, obj>>, g0, AnyNaN(r.Prange),
                 rootcall, SolvedAt(P, lib))

calc_xT_phase(xi, Psat, Pguess, tagl, tagv, g, lib) ==
    LET P0 == IF RatLT(Pguess, Zero)
              THEN Recip(Sum([i \in 1..Len(xi) |-> RatDiv(xi[i], Psat[i])]))
              ELSE Pguess
        g0 == IF NeedsGuess(g)
              THEN Normalized([i \in 1..Len(xi) |->
                                  RatDiv(RatMul(xi[i], Psat[i]), P0)])
              ELSE g
        yi == g0
        r == calc_Prange_xi(yi, g0, lib)
    IN
    IF r.exc # "none" THEN PhaseOut(r.exc, <<>>, g0, FALSE, <<>>, r.global)
    ELSE IF AnyNaN(r.Prange)
    THEN PhaseOut("ValueError", <<>>, g0, TRUE, <<>>, r.global)
    ELSE
    LET s == solve_root(r.Pguess, r.Prange, lib)
        rootcall == <<[x0 |-> r.Pguess, bounds |-> r.Prange]>>
        P == s.P
        flagl == TagOf(tagl, P, xi)
        flagv == TagOf(tagv, P, yi)
        yi_final == SolvedAt(P, lib)
    IN  PhaseOut("none", <<P, yi_final, flagv, flagl, Zero>>, g0, FALSE,
                 rootcall, yi_final)

----------------------------------------------------------------------------
(* Compositions and EOS objects the calls are made with.                   *)

CompEntries == {Zero, <<1, 20>>, <<1, 2>>, One}
Eoses ==
    [density_max : {DensityMax},
     pressure : FiniteCurves \cup NaNCurves \cup ShapedCurves,
     beads : BeadsKinds,
     phi : {<<3, 2>>}]

\* calc_Psat is handed any array of one or two entries.
PsatCompositions == UNION {[1..n -> CompEntries] : n \in 1..2}

----------------------------------------------------------------------------
(* The state machine.  A behaviour draws the arguments of a call and the   *)
(* EOS in its initial state and makes one call of a function of calc.py.   *)

InitPsat ==
    /\ inp \in [xi : PsatCompositions, eos : Eoses, rhodict : RhoDicts]
    /\ call = NoCall
    /\ xi_global = Unset
    /\ yi_global = Unset

Call_calc_Psat ==
    /\ call = NoCall
    /\ \E lib \in IF PsatSearches(inp.xi, inp.eos, inp.rhodict)
                  THEN PsatLibs
                  ELSE {CHOOSE l \in PsatLibs : TRUE} :
          call' = [fn |-> "calc_Psat",
                   out |-> calc_Psat(inp.xi, inp.eos, inp.rhodict, lib)]
    /\ UNCHANGED <<inp, xi_global, yi_global>>

NextPsat ==
    \/ Call_calc_Psat

SpecPsat == InitPsat /\ [][NextPsat]_vars

----------------------------------------------------------------------------
(* Density and fugacity calls at a target pressure.                        *)

\* Compositions of one, two and three components.
DensityCompositions ==
    {<<One>>, <<<<1, 2>>, <<1, 2>>>>, <<<<1, 2>>, <<1, 4>>, <<1, 4>>>>}
DensityEoses == {e \in Eoses : e.beads = "list"}

Init ==
    /\ inp \in [P : PTargets, xi : DensityCompositions, eos : DensityEoses,
                rhodict : RhoDicts]
    /\ call = NoCall
    /\ xi_global = Unset
    /\ yi_global = Unset

Call_calc_rhov ==
    /\ call = NoCall
    /\ \E lib \in DensityLibsFor(inp.P, inp.eos, inp.rhodict) :
          call' = [fn |-> "calc_rhov",
                   out |-> calc_rhov(inp.P, inp.xi, inp.eos, inp.rhodict, lib)]
    /\ UNCHANGED <<inp, xi_global, yi_global>>

Call_calc_rhol ==
    /\ call = NoCall
    /\ \E lib \in DensityLibsFor(inp.P, inp.eos, inp.rhodict) :
          call' = [fn |-> "calc_rhol",
                   out |-> calc_rhol(inp.P, inp.xi, inp.eos, inp.rhodict, lib)]
    /\ UNCHANGED <<inp, xi_global, yi_global>>

Call_calc_phiv ==
    /\ call = NoCall
    /\ \E lib \in DensityLibsFor(inp.P, inp.eos, inp.rhodict) :
          call' = [fn |-> "calc_phiv",
                   out |-> calc_phiv(inp.P, inp.xi, inp.eos, inp.rhodict, lib)]
    /\ UNCHANGED <<inp, xi_global, yi_global>>

Call_calc_phil ==
    /\ call = NoCall
    /\ \E lib \in DensityLibsFor(inp.P, inp.eos, inp.rhodict) :
          call' = [fn |-> "calc_phil",
                   out |-> calc_phil(inp.P, inp.xi, inp.eos, inp.rhodict, lib)]
    /\ UNCHANGED <<inp, xi_global, yi_global>>

Next ==
    \/ Call_calc_rhov
    \/ Call_calc_rhol
    \/ Call_calc_phiv
    \/ Call_calc_phil

Spec == Init /\ [][Next]_vars

----------------------------------------------------------------------------
(* Calls of the public entry points.  The globals hold what earlier calls  *)
(* left there: nothing, a composition, or an array of NaN.                 *)

PhaseGlobals == {Unset, NaNComp} \cup PhaseComps
PhaseTags == [BOOLEAN -> {0, 1}]
PhasePsats ==
    {<<<<10, 1>>, <<10, 1>>>>, <<<<10, 1>>, <<30, 1>>>>, <<NaN, <<30, 1>>>>}

\* The beads of a component above its critical point, in the order of
\* eos.beads: those j with eos.nui[ind][j] > 0.
PhaseBeads == {<<"CO2">>, <<"H2O">>, <<"H2O", "CH4">>}
PhasePguesses == {<<-1, 1>>, <<20, 1>>}

InitPhase ==
    /\ inp \in [zi : PhaseComps, Psat : PhasePsats, Pguess : PhasePguesses,
                tagl : PhaseTags, tagv : PhaseTags, beads : PhaseBeads]
    /\ call = NoCall
    /\ xi_global \in PhaseGlobals
    /\ yi_global \in PhaseGlobals

\* The zi_opts dictionary a caller passes, as its set of items; tolerances
\* in units of 1e-12.
TolCeiling == 100
PhaseZiOpts == {{}, {<<"tol", 1>>}, {<<"tol", 10000>>}}

\* if "tol" in zi_opts: if zi_opts["tol"] > 1e-10: zi_opts["tol"] = 1e-10
ClampTol(zi_opts) ==
    {IF e[1] = "tol" /\ e[2] > TolCeiling THEN <<"tol", TolCeiling>> ELSE e : e \in zi_opts}

\* The caller's dictionary when the call ends: the statement above is
\* reached when nothing before it raised, and zi_opts is the caller's object.
ZiOptsAfter(out, zi_opts) ==
    [passed |-> zi_opts, left |-> IF out.exc = "none" THEN ClampTol(zi_opts) ELSE zi_opts]

Call_calc_yT_phase ==
    /\ call = NoCall
    /\ \E r \in {Bind(PsatEstimate(inp.Psat, inp.beads, TRUE), LAMBDA est :
                   [Psat |-> est.Psat,
                    out |-> IF est.exc # "none"
                            THEN PhaseOut(est.exc, <<>>, Unset, FALSE, <<>>, xi_global)
                            ELSE calc_yT_phase(inp.zi, est.Psat, inp.Pguess,
                                               inp.tagl, inp.tagv, xi_global, lib)])
                 : lib \in {l \in PhaseLibs : l.range # "raise"}} :
       \E d \in PhaseZiOpts :
          /\ call' = [fn |-> "calc_yT_phase", out |-> r.out, Psat |-> r.Psat,
                      zi_opts |-> ZiOptsAfter(r.out, d)]
          /\ xi_global' = r.out.global
    /\ UNCHANGED <<inp, yi_global>>

Call_calc_xT_phase ==
    /\ call = NoCall
    /\ \E r \in {Bind(PsatEstimate(inp.Psat, inp.beads, FALSE), LAMBDA est :
                   [Psat |-> est.Psat,
                    out |-> calc_xT_phase(inp.zi, est.Psat, inp.Pguess, inp.tagl,
                                          inp.tagv, yi_global, lib)])
                 : lib \in PhaseLibs} :
       \E d \in PhaseZiOpts :
          /\ call' = [fn |-> "calc_xT_phase", out |-> r.out, Psat |-> r.Psat,
                      zi_opts |-> ZiOptsAfter(r.out, d)]
          /\ yi_global' = r.out.global
    /\ UNCHANGED <<inp, xi_global>>

NextPhase ==
    \/ Call_calc_yT_phase
    \/ Call_calc_xT_phase

SpecPhase == InitPhase /\ [][NextPhase]_vars

----------------------------------------------------------------------------
(* Claims about calc_Psat, checked under SpecPsat.                         *)

PsatCalled == call.fn = "calc_Psat"

\* The curve and the spline calc_Psat builds from its arguments.
PsatCurve == PvsRho(inp.eos, inp.rhodict)
PsatSpline == PvsV_spline(PsatCurve.vlist, PsatCurve.Plist)

\* C1: for every composition that does not have exactly one nonzero entry,
\* calc_Psat raises ValueError, returns nothing and evaluates no EOS
\* pressure.
C1_InvalidCompositionRaisesValueError ==
    (PsatCalled /\ CountNonzero(inp.xi) # 1) =>
        /\ call.out.exc = "ValueError"
        /\ call.out.ret = <<>>
        /\ call.out.ncalls = 0

\* C2: for a valid pure-component composition, whenever the P-v curve has
\* fewer than 2 extrema or its roots are NaN, calc_Psat returns Psat = NaN,
\* raises nothing and does not run the equal-area minimisation.
C2_SupercriticalReturnsNaN ==
    (/\ PsatCalled
     /\ CountNonzero(inp.xi) = 1
     /\ PsatCurve.exc = "none"
     /\ (Len(PsatSpline.extrema) < 2 \/ AnyNaN(PsatSpline.roots))) =>
        /\ call.out.exc = "none"
        /\ IsNaN(call.out.ret[1])
        /\ ~call.out.minimized

C2_Witness ==
    /\ PsatCalled
    /\ CountNonzero(inp.xi) = 1
    /\ PsatCurve.exc = "none"
    /\ Len(PsatSpline.extrema) = 1
    /\ ~AnyNaN(PsatSpline.roots)
    /\ call.out.exc = "none"
    /\ IsNaN(call.out.ret[1])

----------------------------------------------------------------------------
(* Claims about the density and fugacity functions, checked under Spec.    *)

DensityCalled == call.fn \in {"calc_rhov", "calc_rhol"}
PhiCalled == call.fn \in {"calc_phiv", "calc_phil"}

\* The curve and the spline a density call builds from its arguments.
DensityCurve == PvsRho(inp.eos, inp.rhodict)
DensitySpline ==
    PvsV_spline(DensityCurve.vlist, Shift(DensityCurve.Plist, inp.P))

\* C6: calc_rhov and calc_rhol are total over curve shapes: once the curve
\* is built, for every root count and extrema count the function reaches
\* its return statement with a density and a tag in 0..4 assigned.
C6_DensityFunctionsTotal ==
    (DensityCalled /\ DensityCurve.exc = "none") =>
        /\ call.out.exc = "none"
        /\ call.out.flag \in 0..4

C8_NaNVectorOfCompositionLength ==
    (PhiCalled /\ call.out.exc = "none" /\ call.out.flag = 3) =>
        /\ Len(call.out.phi) = Len(inp.xi)
        /\ \A i \in 1..Len(call.out.phi) : IsNaN(call.out.phi[i])

\* C9: in calc_phiv and calc_phil, with tag 4 the coefficients are all ones
\* of the composition's length, the density is 0 and
\* eos.fugacity_coefficient is not called; it is called only when the tag
\* is neither 3 nor 4, and never with a NaN density.
C9_IdealGasSkipsFugacity ==
    (PhiCalled /\ call.out.exc = "none") =>
        /\ call.out.flag = 4 =>
              /\ call.out.phi = [i \in 1..Len(inp.xi) |-> One]
              /\ call.out.rho = Zero
              /\ call.out.fugrho = <<>>
        /\ call.out.fugrho # <<>> =>
              /\ call.out.flag \notin {3, 4}
              /\ ~AnyNaN(call.out.fugrho)

\* C10: if the EOS returns NaN for a sampled pressure, PvsV_spline reports
\* the roots as [NaN], calc_rhov and calc_rhol return (NaN, 3) without
\* raising and without refinement, and calc_phiv and calc_phil return NaN
\* coefficients without calling eos.fugacity_coefficient.
C10_NaNSamplePropagates ==
    (/\ call.fn # "none"
     /\ DensityCurve.exc = "none"
     /\ AnyNaN(DensityCurve.Plist)) =>
        /\ DensitySpline.roots = <<NaN>>
        /\ call.out.exc = "none"
        /\ call.out.flag = 3
        /\ call.out.refined = "none"
        /\ IsNaN(call.out.rho)
        /\ PhiCalled =>
              /\ call.out.phi # <<>>
              /\ \A i \in 1..Len(call.out.phi) : IsNaN(call.out.phi[i])
              /\ call.out.fugrho = <<>>

C10_Witness ==
    /\ call.fn = "calc_phil"
    /\ DensityCurve.exc = "none"
    /\ AnyNaN(DensityCurve.Plist)
    /\ call.out.flag = 3
    /\ IsNaN(call.out.rho)

\* The curve shifted by the target pressure, as the density functions
\* assess it.
DensityShifted == Shift(DensityCurve.Plist, inp.P)

\* C18: for every root list of length 3 or more, calc_rhov returns tag 0
\* with its density estimate taken from the last root (the largest
\* volume), and calc_rhol returns tag 1 with its estimate taken from the
\* first root (the smallest volume).
C18_EndRootsOfThreeOrMore ==
    (/\ DensityCalled
     /\ DensityCurve.exc = "none"
     /\ ~AnyNaN(DensitySpline.roots)
     /\ Len(DensitySpline.roots) >= 3) =>
        /\ call.out.exc = "none"
        /\ IF call.fn = "calc_rhov"
           THEN /\ call.out.flag = 0
                /\ call.out.est = Recip(Last(DensitySpline.roots))
           ELSE /\ call.out.flag = 1
                /\ call.out.est = Recip(DensitySpline.roots[1])

\* The refinement was attempted and found no sign change over the bracket.
NoSignChange ==
    /\ DensityCalled
    /\ call.out.exc = "none"
    /\ call.out.refined \in {"approximate", "minimize", "noopt"}

\* C19 (as stated): whenever the residual has no sign change over the
\* bracket, the density returned is exactly the unrefined estimate and no
\* further optimisation of the density is performed.
C19_Original ==
    NoSignChange =>
        /\ call.out.rho = call.out.est
        /\ call.out.refined # "minimize"

\* C19 (amended): whenever the residual has no sign change over the
\* bracket, the unrefined estimate is returned exactly when the shifted
\* pressure at the smallest volume is negative or the estimate came from
\* the dense end of a curve without roots; otherwise a bounded
\* minimisation of the residual is started from the estimate and its
\* result, between 1e-28 and 0.99 of the maximum density, is returned.
C19_EstimateKeptOrMinimized ==
    NoSignChange =>
        /\ call.out.flag \in (IF call.fn = "calc_rhov" THEN {0, 2} ELSE {1, 2})
        /\ call.out.refined = "approximate" <=>
              RatLT(DensityShifted[1], Zero)
        /\ call.out.refined \in {"approximate", "noopt"} =>
              call.out.rho = call.out.est
        /\ call.out.refined = "noopt" => Len(DensitySpline.roots) = 0
        /\ call.out.refined = "minimize" =>
              /\ RatLE(Tiny, call.out.rho)
              /\ RatLE(call.out.rho,
                       RatMul(inp.eos.density_max, <<99, 100>>))

C19_Witness ==
    /\ NoSignChange
    /\ call.fn = "calc_rhov"
    /\ call.out.refined = "minimize"
    /\ call.out.rho # call.out.est

----------------------------------------------------------------------------
(* Claims about the entry points, checked under SpecPhase.                 *)

PhaseCalled == call.fn \in {"calc_yT_phase", "calc_xT_phase"}

\* The companion global of the entry point called, as the call left it.
CompanionGlobal ==
    IF call.fn = "calc_yT_phase" THEN xi_global ELSE yi_global

\* C4: the tuple calc_xT_phase and calc_yT_phase return describes the final
\* solved state: the companion composition returned is the value of the
\* companion global at return, and the two tags returned are the tags of
\* the given composition and of that returned companion composition at the
\* returned pressure.
C4_ReturnsFinalSolvedState ==
    (PhaseCalled /\ call.out.exc = "none") =>
        LET P == call.out.ret[1] IN
        /\ call.out.ret[2] = CompanionGlobal
        /\ IF call.fn = "calc_yT_phase"
           THEN /\ call.out.ret[3] = TagOf(inp.tagl, P, CompanionGlobal)
                /\ call.out.ret[4] = TagOf(inp.tagv, P, inp.zi)
           ELSE /\ call.out.ret[3] = TagOf(inp.tagv, P, CompanionGlobal)
                /\ call.out.ret[4] = TagOf(inp.tagl, P, inp.zi)

\* C5: in calc_xT_phase and calc_yT_phase, when the bracketing procedure
\* returns a NaN range the entry point raises ValueError before the root
\* finder is invoked and returns nothing.
C5_NaNRangeRaisesBeforeRootFinder ==
    (PhaseCalled /\ call.out.nanrange) =>
        /\ call.out.exc = "ValueError"
        /\ call.out.rootcall = <<>>
        /\ call.out.ret = <<>>

\* The guess an entry point derives from its own arguments alone: the one
\* it starts from when the companion global is not there.
OwnGuess ==
    LET lib == CHOOSE l \in PhaseLibs : TRUE
    IN  IF call.fn = "calc_yT_phase"
        THEN calc_yT_phase(inp.zi, call.Psat, inp.Pguess, inp.tagl, inp.tagv,
                           Unset, lib).guess
        ELSE calc_xT_phase(inp.zi, call.Psat, inp.Pguess, inp.tagl, inp.tagv,
                           Unset, lib).guess

\* C12: the companion-phase guess a calc_xT_phase or calc_yT_phase call
\* starts its bracketing from depends only on the call's own arguments,
\* whatever earlier equilibrium calls left in the module's globals.
C12_GuessDependsOnlyOnArguments ==
    PhaseCalled => call.out.guess = OwnGuess

\* The named exceptions of setPsat.
NamedException(bead) ==
    bead \in {"CO2", "N2"} \/ HasCH4(bead) \/ HasCH3CH3(bead)

\* C15: when a component's pure-component saturation pressure is NaN and
\* the component matches none of the exceptions named in setPsat, the
\* entry point raises a domain error instead of continuing with a
\* substitute saturation pressure.
C15_SupercriticalWithoutExceptionRaises ==
    (/\ PhaseCalled
     /\ AnyNaN(inp.Psat)
     /\ \A j \in 1..Len(inp.beads) : ~NamedException(inp.beads[j])) =>
        /\ call.out.exc = "ValueError"
        /\ call.out.rootcall = <<>>

----------------------------------------------------------------------------
(* The K-value relation: calc_yi and calc_xi.  Their products and          *)
(* quotients are rounded to the nearest float after every operation, as    *)
(* the hardware rounds them; a float here has MantissaBits significant     *)
(* bits.                                                                   *)

MantissaBits == 6

RECURSIVE Pow2(_)
Pow2(k) == IF k = 0 THEN 1 ELSE 2 * Pow2(k - 1)

\* n/d scaled by a power of two into [2^(MantissaBits-1), 2^MantissaBits):
\* <<n', d', e>> with n/d = (n'/d') * 2^e.
RECURSIVE FlScale(_, _, _)
FlScale(n, d, e) ==
    IF n >= Pow2(MantissaBits) * d THEN FlScale(n, 2 * d, e + 1)
    ELSE IF n < Pow2(MantissaBits - 1) * d THEN FlScale(2 * n, d, e - 1)
    ELSE <<n, d, e>>

\* n/d rounded to the nearest integer, ties to the even one.
RoundHalfEven(n, d) ==
    Bind(n \div d, LAMBDA q :
    Bind(n % d, LAMBDA r :
        IF 2 * r < d THEN q
        ELSE IF 2 * r > d THEN q + 1
        ELSE IF q % 2 = 0 THEN q ELSE q + 1))

\* The float nearest to r.
Fl(r0) ==
    Bind(r0, LAMBDA r :
    IF r[2] = 0 \/ r[1] = 0 THEN r
    ELSE
    Bind(FlScale(Abs(r[1]), r[2], 0), LAMBDA t :
    Bind(Sign(r[1]) * RoundHalfEven(t[1], t[2]), LAMBDA m :
        IF t[3] >= 0 THEN Norm(<<m * Pow2(t[3]), 1>>)
        ELSE Norm(<<m, Pow2(-t[3])>>))))

\* calc_yi: zeros, then xi[i] * phil[i] / phiv[i] where xi[i] != 0.0.
calc_yi(xi, phil, phiv) ==
    [i \in 1..Len(xi) |->
        IF xi[i] # Zero
        THEN Fl(RatDiv(Fl(RatMul(xi[i], phil[i])), phiv[i]))
        ELSE Zero]

\* calc_xi: zeros, then yi[i] * phiv[i] / phil[i] where yi[i] != 0.0.
calc_xiSwapped(yi, phiv, phil) ==
    [i \in 1..Len(yi) |->
        IF yi[i] # Zero
        THEN Fl(RatDiv(Fl(RatMul(yi[i], phil[i])), phiv[i]))
        ELSE Zero]
calc_xi(yi, phiv, phil) ==
    [i \in 1..Len(yi) |->
        IF yi[i] # Zero
        THEN Fl(RatDiv(Fl(RatMul(yi[i], phiv[i])), phil[i]))
        ELSE Zero]

\* Entries of the compositions and of the fugacity-coefficient vectors the
\* two functions are called with: floats, NaN among them (calc_phiv and
\* calc_phil return NaN coefficients for tag 3).
KCompEntries == {Zero, NaN, Fl(<<1, 10>>), <<1, 4>>, One}
KPhiEntries == {Zero, NaN, <<3, 2>>, <<5, 1>>, <<9, 1>>}

InitK ==
    /\ \E n \in 1..2 :
          inp \in [xi : [1..n -> KCompEntries],
                   phil : [1..n -> KPhiEntries],
                   phiv : [1..n -> KPhiEntries]]
    /\ call = NoCall
    /\ xi_global = Unset
    /\ yi_global = Unset

\* calc_yi(xi, phil, phiv).
Call_calc_yi ==
    /\ call = NoCall
    /\ call' = [fn |-> "calc_yi", arg |-> inp.xi, trip |-> FALSE,
                out |-> calc_yi(inp.xi, inp.phil, inp.phiv)]
    /\ UNCHANGED <<inp, xi_global, yi_global>>

\* calc_xi(yi, phiv, phil), on the composition given or on the result of
\* the calc_yi call made before.
Call_calc_xi ==
    /\ \/ /\ call = NoCall
          /\ call' = [fn |-> "calc_xi", arg |-> inp.xi, trip |-> FALSE,
                      out |-> calc_xi(inp.xi, inp.phiv, inp.phil)]
       \/ /\ call.fn = "calc_yi"
          /\ call' = [fn |-> "calc_xi", arg |-> call.out, trip |-> TRUE,
                      out |-> calc_xi(call.out, inp.phiv, inp.phil)]
    /\ UNCHANGED <<inp, xi_global, yi_global>>

NextK ==
    \/ Call_calc_yi
    \/ Call_calc_xi

SpecK == InitK /\ [][NextK]_vars

----------------------------------------------------------------------------
(* Claims about the K-value relation, checked under SpecK.                 *)

KCalled == call.fn \in {"calc_yi", "calc_xi"}
NoZeroEntries(s) == \A i \in 1..Len(s) : s[i] # Zero
AllFinite(s) == \A i \in 1..Len(s) : IsFinite(s[i])

\* A zero entry of the composition passed in is a zero entry of the result.
ZeroEntriesKept ==
    KCalled => \A i \in 1..Len(call.arg) :
                   call.arg[i] = Zero => call.out[i] = Zero

\* Four roundings, each of relative size at most 2^-MantissaBits.
KTolerance == <<5, Pow2(MantissaBits)>>

-----------------------------------------------------------------------------
(* The iterative solvers, one loop iteration at a time.  call holds the    *)
(* frame of the running function: its position pc, the loop it is in, the  *)
(* loop variable z of the iteration that runs next (or ran last), the      *)
(* number of iterations started, the loop's cap and the locals l.          *)
(* Compositions are kept by kind: "comp" has a positive entry, "zeros" is  *)
(* all zeros (what yinew[isnan(yinew)] = 0. leaves of a NaN vector) and    *)
(* "nan" is a vector of NaN (zeros divided by their sum).  The fluid tags  *)
(* the library returns are drawn from "0" (vapor), "1" (liquid), "3" (no   *)
(* density, NaN fugacity coefficients).  inp.ncomp is the number of        *)
(* components and inp.full says that none of them has mole fraction zero.  *)

YiMaxiter == 30
XiMaxiter == 20
PrangeMaxiter == 200
BracketMaxiter == 50
FlashMaxiter == 200

MaxTrials == 3

Flags == {"0", "1", "3"}

\* A local that no statement has bound yet.
Unbound == "unbound"

\* The composition the inner solvers publish in the module global.
SolvedComp == <<<<1, 4>>, <<3, 4>>>>

InitLoops ==
    /\ inp \in [opts : {<<>>, <<1>>, <<3>>}, ncomp : {2, 3}, full : BOOLEAN]
    /\ call = NoCall
    /\ xi_global = <<<<1, 2>>, <<1, 2>>>>
    /\ yi_global = <<<<1, 2>>, <<1, 2>>>>

\* maxiter=... keyword, or the default of the signature.
Maxiter(default) == IF inp.opts = <<>> THEN default ELSE inp.opts[1]

Frame(fn, cap, l) ==
    [fn |-> fn, pc |-> "loop", loop |-> 1, z |-> 0, iters |-> 0, cap |-> cap,
     brk |-> FALSE, l |-> l, exc |-> "none", ret |-> <<>>]

AdvanceOnePastCap(c, brk, l) ==
    IF brk THEN [c EXCEPT !.pc = "after", !.iters = @ + 1, !.brk = TRUE, !.l = l]
    ELSE IF c.z + 1 < c.cap + 1 THEN [c EXCEPT !.z = @ + 1, !.iters = @ + 1, !.l = l]
    ELSE [c EXCEPT !.pc = "after", !.iters = @ + 1, !.l = l]

\* for z in range(cap): iteration z has run and either broke out or fell
\* through to the next value of the range.
Advance(c, brk, l) ==
    IF brk THEN [c EXCEPT !.pc = "after", !.iters = @ + 1, !.brk = TRUE, !.l = l]
    ELSE IF c.z + 1 < c.cap THEN [c EXCEPT !.z = @ + 1, !.iters = @ + 1, !.l = l]
    ELSE [c EXCEPT !.pc = "after", !.iters = @ + 1, !.l = l]

Raise(c, exc) == [c EXCEPT !.pc = "raised", !.exc = exc]

Return(c, ret, l) == [c EXCEPT !.pc = "done", !.ret = ret, !.l = l]

\* xi * phil / phiv followed by yinew[isnan(yinew)] = 0.
FromPhi(flag) == IF flag = "3" THEN "zeros" ELSE "comp"

\* v / np.sum(v)
Normalise(kind) == IF kind = "zeros" \/ kind = "nan" THEN "nan" ELSE "comp"

\* v[np.isnan(v)] = 0.
ZeroNaN(kind) == IF kind = "nan" THEN "zeros" ELSE kind

(* solve_yi_xiT *)

Enter_solve_yi_xiT ==
    /\ call = NoCall
    /\ \E yi \in {"comp", "nan"} :
          call' = Frame("solve_yi_xiT", Maxiter(YiMaxiter),
                        [cv |-> TRUE, ts |-> TRUE, ntot |-> 1, yi |-> Normalise(yi),
                         yi_tmp |-> Unbound, yinew |-> Unbound, yi2 |-> Unbound,
                         flagv |-> Unbound, flagv2 |-> Unbound, phiv2nan |-> FALSE,
                         conv |-> FALSE, lsq |-> FALSE, scan |-> FALSE,
                         err10 |-> FALSE, objbad |-> FALSE,
                         scanfail |-> FALSE, helper |-> FALSE])
    /\ UNCHANGED <<inp, xi_global, yi_global>>

YiPicks ==
    [flagv : Flags, found : BOOLEAN, new : Flags, trivial : BOOLEAN,
     flagv2 : Flags, exit : {"none", "bounce", "conv1", "conv"}]

\* all(yi_tmp != 0.) and len(yi_tmp) == 2
Binary(yi_tmp) == inp.ncomp = 2 /\ (inp.full \/ yi_tmp = "nan")

\* Lines 1339-1370: the new estimate; stop is the break with flagv = 3 and
\* helper says that find_new_yi was called.
YiGuess(l, yi_tmp, flagv, e) ==
    IF flagv \in {"1", "3"} /\ l.cv
    THEN IF Binary(yi_tmp)
         THEN IF ~e.found
              THEN [stop |-> TRUE, helper |-> TRUE, cv |-> FALSE, ts |-> l.ts,
                    flagv |-> "3", yinew |-> l.yinew]
              ELSE [stop |-> FALSE, helper |-> TRUE, cv |-> FALSE, ts |-> l.ts,
                    flagv |-> e.new, yinew |-> FromPhi(e.new)]
         ELSE [stop |-> FALSE, helper |-> FALSE, cv |-> FALSE, ts |-> l.ts,
               flagv |-> flagv, yinew |-> ZeroNaN(l.yi)]
    ELSE IF yi_tmp = "comp" /\ e.trivial /\ l.ts
    THEN IF Binary(yi_tmp) /\ ~e.found
         THEN [stop |-> TRUE, helper |-> TRUE, cv |-> l.cv, ts |-> FALSE,
               flagv |-> "3", yinew |-> l.yinew]
         ELSE [stop |-> FALSE, helper |-> Binary(yi_tmp), cv |-> l.cv, ts |-> FALSE,
               flagv |-> e.new, yinew |-> FromPhi(e.new)]
    ELSE [stop |-> FALSE, helper |-> FALSE, cv |-> l.cv, ts |-> l.ts,
          flagv |-> flagv, yinew |-> FromPhi(flagv)]

\* Lines 1334-1405: one pass of the loop body.
YiIteration(l, z, cap, e) ==
    Bind(Normalise(l.yi), LAMBDA yi_tmp :
    Bind(IF yi_tmp = "nan" THEN "3" ELSE e.flagv, LAMBDA flagv0 :
    Bind(YiGuess(l, yi_tmp, flagv0, e), LAMBDA g :
    Bind([l EXCEPT !.yi_tmp = yi_tmp, !.cv = g.cv, !.ts = g.ts, !.flagv = g.flagv,
                   !.helper = @ \/ g.helper, !.scanfail = g.stop], LAMBDA l1 :
      IF g.stop THEN [exc |-> "none", brk |-> TRUE, glob |-> FALSE, l |-> l1]
      ELSE
        Bind(Normalise(g.yinew), LAMBDA yi2 :
        Bind(IF yi2 = "nan" THEN "3" ELSE e.flagv2, LAMBDA flagv2 :
        Bind([l1 EXCEPT !.yinew = g.yinew, !.yi2 = yi2, !.flagv2 = flagv2,
                        !.phiv2nan = (flagv2 = "3")], LAMBDA l2 :
          IF l.ntot > 3 /\ e.exit = "bounce" /\ g.flagv # flagv2
          THEN [exc |-> "none", brk |-> TRUE, glob |-> TRUE,
                l |-> [l2 EXCEPT !.yi2 = "comp", !.flagv2 = e.new, !.phiv2nan = (e.new = "3"),
                                 !.helper = TRUE]]
          ELSE IF e.exit \in {"conv1", "conv"} /\ yi_tmp = "nan"
          THEN [exc |-> "ValueError", brk |-> FALSE, glob |-> FALSE, l |-> l2]
          ELSE IF e.exit = "conv" /\ yi2 = "comp"
          THEN [exc |-> "none", brk |-> TRUE, glob |-> TRUE, l |-> [l2 EXCEPT !.conv = TRUE]]
          ELSE [exc |-> "none", brk |-> FALSE, glob |-> FALSE,
                l |-> IF z < cap - 1
                      THEN [l2 EXCEPT !.ntot = IF @ > 3 THEN @ ELSE @ + 1, !.yi = g.yinew]
                      ELSE l2])))))))

Iter_solve_yi_xiT ==
    /\ call.fn = "solve_yi_xiT"
    /\ call.pc = "loop"
    /\ \E e \in YiPicks :
          LET r == YiIteration(call.l, call.z, call.cap, e)
          IN  /\ call' = IF r.exc # "none" THEN Raise([call EXCEPT !.iters = @ + 1, !.l = r.l], r.exc)
                         ELSE Advance(call, r.brk, r.l)
              /\ yi_global' = IF r.glob THEN SolvedComp ELSE yi_global
    /\ UNCHANGED <<inp, xi_global>>

\* Lines 1408-1431.
After_solve_yi_xiT ==
    /\ call.fn = "solve_yi_xiT"
    /\ call.pc = "after"
    /\ LET l == call.l
       IN  IF l.yi_tmp = "nan" THEN call' = Raise(call, "ValueError")
           ELSE IF l.flagv = "3"
           THEN IF l.yinew = Unbound THEN call' = Raise(call, "UnboundLocalError")
                ELSE call' = Return(call, [yi |-> Normalise(l.yinew), phinan |-> TRUE, flag |-> "nan"],
                                    [l EXCEPT !.yi2 = Normalise(l.yinew), !.phiv2nan = TRUE, !.flagv2 = "nan"])
           ELSE IF call.z = call.cap - 1
           THEN \E err10 \in BOOLEAN, flagv \in Flags, objbad \in BOOLEAN :
                   call' = Return(call, [yi |-> Normalise(l.yinew), phinan |-> l.phiv2nan, flag |-> l.flagv2],
                                  [l EXCEPT !.yi2 = Normalise(l.yinew), !.err10 = err10, !.scan = err10,
                                            !.lsq = TRUE, !.objbad = objbad,
                                            !.flagv = IF objbad THEN "3" ELSE flagv])
           ELSE call' = Return(call, [yi |-> l.yi2, phinan |-> l.phiv2nan, flag |-> l.flagv2], l)
    /\ UNCHANGED <<inp, xi_global, yi_global>>

(* solve_xi_yiT *)

Enter_solve_xi_yiT ==
    /\ call = NoCall
    /\ \E xi \in {"comp", "nan"} :
          call' = Frame("solve_xi_yiT", Maxiter(XiMaxiter),
                        [xi |-> Normalise(xi), xi_tmp |-> Unbound, xinew |-> Unbound, flagl |-> Unbound,
                         conv |-> FALSE, lsq |-> FALSE, scan |-> FALSE, err10 |-> FALSE,
                         helper |-> FALSE])
    /\ UNCHANGED <<inp, xi_global, yi_global>>

XiPicks == [flagl : Flags, new : Flags, exit : {"none", "conv1", "conv"}]

\* Lines 1483-1518: one pass of the loop body.
XiIteration(l, z, cap, e) ==
    Bind(Normalise(l.xi), LAMBDA xi_tmp :
    Bind(IF xi_tmp = "nan" THEN "3" ELSE e.flagl, LAMBDA flagl0 :
    Bind(IF flagl0 \in {"0", "3"}
         THEN IF l.xi = "nan" \/ (l.xi = "comp" /\ inp.full)
              THEN [flagl |-> e.new, xinew |-> FromPhi(e.new), helper |-> TRUE]
              ELSE [flagl |-> flagl0, xinew |-> l.xi, helper |-> FALSE]
         ELSE [flagl |-> flagl0, xinew |-> "comp", helper |-> FALSE], LAMBDA g :
    Bind([l EXCEPT !.xi_tmp = xi_tmp, !.flagl = g.flagl, !.xinew = g.xinew,
                   !.helper = @ \/ g.helper], LAMBDA l1 :
      IF e.exit \in {"conv1", "conv"} /\ xi_tmp = "nan"
      THEN [exc |-> "ValueError", brk |-> FALSE, glob |-> FALSE, l |-> l1]
      ELSE IF e.exit = "conv" /\ g.xinew = "comp"
      THEN [exc |-> "none", brk |-> TRUE, glob |-> TRUE, l |-> [l1 EXCEPT !.conv = TRUE]]
      ELSE [exc |-> "none", brk |-> FALSE, glob |-> FALSE,
            l |-> IF z < cap - 1 THEN [l1 EXCEPT !.xi = g.xinew] ELSE l1]))))

Iter_solve_xi_yiT ==
    /\ call.fn = "solve_xi_yiT"
    /\ call.pc = "loop"
    /\ \E e \in XiPicks :
          LET r == XiIteration(call.l, call.z, call.cap, e)
          IN  /\ call' = IF r.exc # "none" THEN Raise([call EXCEPT !.iters = @ + 1, !.l = r.l], r.exc)
                         ELSE Advance(call, r.brk, r.l)
              /\ xi_global' = IF r.glob THEN SolvedComp ELSE xi_global
    /\ UNCHANGED <<inp, yi_global>>

\* Lines 1521-1538.
After_solve_xi_yiT ==
    /\ call.fn = "solve_xi_yiT"
    /\ call.pc = "after"
    /\ LET l == call.l
           ret == [xi |-> l.xi_tmp, phinan |-> (l.flagl = "3"), flag |-> l.flagl]
       IN  IF l.xi # "comp" THEN call' = Raise(call, "ValueError")
           ELSE IF call.z = call.cap - 1
           THEN \E err10 \in BOOLEAN :
                   call' = Return(call, ret, [l EXCEPT !.err10 = err10, !.scan = err10, !.lsq = TRUE])
           ELSE call' = Return(call, ret, l)
    /\ UNCHANGED <<inp, xi_global, yi_global>>

(* calc_Prange_xi, calc_Prange_yi.  Pressures are whole multiples of a     *)
(* pressure unit; a midpoint or product rounds to one, as a float result   *)
(* rounds to a float.  The library is fixed by threshold pressures: where  *)
(* a density exists, and where the objective changes sign.                 *)

Sign3(a, b) == IF a < b THEN -1 ELSE IF a = b THEN 0 ELSE 1

\* (Prange[1]-Prange[0])/2.0 + Prange[0]
Mid(Prange) == (Prange[2] - Prange[1]) \div 2 + Prange[1]

\* A variant that moves the upper end down to the lower end even when the
\* new pressure lies below it.
NewMaxAlwaysShift(l, p, obj) ==
    [l EXCEPT !.Prange = <<l.Prange[2], p>>, !.ObjRange = <<l.ObjRange[2], obj>>,
              !.ObjAt = <<l.ObjAt[2], p>>]

\* if Prange[1] < p: Prange[0] = Prange[1]; ObjRange[0] = ObjRange[1]
\* and then Prange[1] = p; ObjRange[1] = obj.  ObjAt[k] is the pressure at
\* which the value in ObjRange[k] was evaluated, 0 when it is no objective.
NewMax(l, p, obj) ==
    IF l.Prange[2] < p
    THEN [l EXCEPT !.Prange = <<l.Prange[2], p>>, !.ObjRange = <<l.ObjRange[2], obj>>,
                   !.ObjAt = <<l.ObjAt[2], p>>]
    ELSE [l EXCEPT !.Prange[2] = p, !.ObjRange[2] = obj, !.ObjAt[2] = p]

\* calc_phil returns NaN below Pnan and a liquid from Pliq on; solve_yi_xiT
\* finds a vapor below Pv (NaN composition from Pv on) and reproduces xi
\* from Pt on; the objective is positive below r, zero at r, negative above.
PrangeXiOracles ==
    [Pnan : {0, 10}, Pliq : {0, 20}, r : {4, 40, 80, 1000}, Pv : {50, 2000}, Pt : {30, 5000}]

\* Lines 976-998.
Enter_calc_Prange_xi ==
    /\ call = NoCall
    /\ \E o \in PrangeXiOracles :
          call' = Frame("calc_Prange_xi", PrangeMaxiter,
                        [o |-> o, p |-> 8, prev |-> 0, last |-> "none",
                         Prange |-> <<8, 80>>, ObjRange |-> <<0, 0>>, ObjAt |-> <<0, 0>>,
                         flag_liqu |-> FALSE, flag_min |-> FALSE, Parray |-> {}, olast |-> 0])
    /\ UNCHANGED <<inp, xi_global, yi_global>>

\* Lines 1001-1037: the branch taken at pressure p in the first loop; brk
\* is the break on a positive objective.
MinPressureStep(l) ==
    Bind(l.p, LAMBDA p :
    Bind(IF p >= l.o.Pv THEN -1 ELSE Sign3(l.o.r, p), LAMBDA obj :
      IF p < l.o.Pliq
      THEN [brk |-> FALSE, l |-> [l EXCEPT !.Prange[1] = p, !.p = 2 * p, !.last = "vapor"]]
      ELSE IF p >= l.o.Pv
      THEN [brk |-> FALSE,
            l |-> [l EXCEPT !.Prange[1] = p, !.ObjRange[1] = obj, !.ObjAt[1] = p,
                            !.p = p \div 2, !.last = "yinan"]]
      ELSE IF p >= l.o.Pt
      THEN [brk |-> FALSE,
            l |-> [l EXCEPT !.flag_liqu = TRUE, !.Prange[2] = p, !.ObjRange[2] = obj,
                            !.ObjAt[2] = p, !.p = (3 * p) \div 4, !.last = "trivial"]]
      ELSE IF obj > 0
      THEN [brk |-> TRUE,
            l |-> [l EXCEPT !.Prange[1] = p, !.ObjRange[1] = obj, !.ObjAt[1] = p, !.last = "pos"]]
      ELSE IF l.ObjRange[1] < 0
      THEN [brk |-> FALSE,
            l |-> [l EXCEPT !.Prange[2] = p, !.ObjRange[2] = obj, !.ObjAt[2] = p,
                            !.p = p \div 2, !.last = "high"]]
      ELSE [brk |-> FALSE, l |-> [l EXCEPT !.last = IF obj < 0 THEN "neg" ELSE "zero"]]))

\* Lines 1039-1041.
OrderRange(l) ==
    IF l.Prange[1] > l.Prange[2]
    THEN [l EXCEPT !.Prange[1] = l.Prange[2], !.ObjRange[1] = l.ObjRange[2], !.ObjAt[1] = l.ObjAt[2]]
    ELSE l

\* Lines 1068-1137: the branch taken at pressure p in the second loop.  In
\* the flag_min branch pnew is the pressure the fits and random draws leave.
MaxPressureStep(l, z, k, pnew) ==
    Bind(l.p, LAMBDA p :
    Bind(IF p >= l.o.Pv THEN -1 ELSE Sign3(l.o.r, p), LAMBDA obj :
      IF p >= l.o.Pv
      THEN [brk |-> FALSE,
            l |-> [l EXCEPT !.flag_liqu = TRUE, !.Prange[2] = p, !.ObjRange[2] = obj,
                            !.ObjAt[2] = p, !.p = Mid(<<l.Prange[1], p>>)]]
      ELSE IF obj < 0
      THEN [brk |-> TRUE, l |-> NewMax(l, p, obj)]
      ELSE
        Bind([l EXCEPT !.Parray = @ \cup {p}, !.olast = obj], LAMBDA l1 :
          IF l.flag_liqu
          THEN [brk |-> FALSE,
                l |-> [l1 EXCEPT !.Prange[1] = p, !.ObjRange[1] = obj, !.ObjAt[1] = p,
                                 !.p = Mid(<<p, l.Prange[2]>>)]]
          ELSE IF (z > 0 /\ 10 * obj > 11 * l.olast) \/ l.flag_min
          THEN Bind(IF l.flag_min THEN l1
                    ELSE [l1 EXCEPT !.flag_min = TRUE, !.Prange[1] = l.Prange[2],
                                    !.ObjRange[1] = l.ObjRange[2], !.ObjAt[1] = l.ObjAt[2]], LAMBDA l2 :
                 IF p \in l.Parray THEN [brk |-> TRUE, l |-> l2]
                 ELSE IF obj > l2.ObjRange[1]
                 THEN [brk |-> FALSE,
                       l |-> [l2 EXCEPT !.Prange[2] = p, !.ObjRange[2] = obj, !.ObjAt[2] = p,
                                        !.p = Mid(<<l2.Prange[1], p>>)]]
                 ELSE [brk |-> FALSE, l |-> [l2 EXCEPT !.p = pnew]])
          ELSE [brk |-> FALSE, l |-> [NewMax(l1, p, obj) EXCEPT !.p = k * p]])))

\* Lines 999-1047 and 1064-1137.
Iter_calc_Prange_xi ==
    /\ call.fn = "calc_Prange_xi"
    /\ call.pc = "loop"
    /\ LET l == [call.l EXCEPT !.prev = call.l.p]
       IN  IF l.p < l.o.Pnan
           THEN call' = IF call.loop = 2 THEN Raise([call EXCEPT !.iters = @ + 1], "ValueError")
                        ELSE Advance(call, FALSE, [l EXCEPT !.Prange[1] = @ + 8, !.last = "philnan"])
           ELSE IF call.loop = 1
           THEN LET s == MinPressureStep(l)
                IN  IF s.brk THEN call' = Advance(call, TRUE, s.l)
                    ELSE LET l1 == OrderRange(s.l)
                         IN  \E rnd \in {l1.Prange[1], Mid(l1.Prange)} :
                                LET l2 == IF (l1.p < l1.Prange[1] /\ l1.Prange[1] # l1.Prange[2])
                                             \/ (l1.flag_liqu /\ l1.p > l1.Prange[2])
                                          THEN [l1 EXCEPT !.p = rnd] ELSE l1
                                IN  call' = IF l2.p <= 0
                                            THEN Raise([call EXCEPT !.iters = @ + 1, !.l = l2], "ValueError")
                                            ELSE Advance(call, FALSE, l2)
           ELSE \E k \in {2, 3}, pnew \in {l.p, l.Prange[1], Mid(l.Prange)} :
                   LET s == MaxPressureStep(l, call.z, k, pnew)
                   IN  call' = Advance(call, s.brk, s.l)
    /\ UNCHANGED <<inp, xi_global, yi_global>>

\* Lines 1049-1062 after the first loop, lines 1139-1152 after the second.
After_calc_Prange_xi ==
    /\ call.fn = "calc_Prange_xi"
    /\ call.pc = "after"
    /\ IF call.loop = 1
       THEN /\ call' = IF call.z = call.cap - 1 THEN Raise(call, "ValueError")
                       ELSE LET l == call.l
                                P1 == IF l.Prange[2] <= l.Prange[1]
                                      THEN (11 * l.Prange[1] + 9) \div 10 ELSE l.Prange[2]
                            IN  [call EXCEPT !.pc = "loop", !.loop = 2, !.z = 0, !.iters = 0,
                                             !.brk = FALSE,
                                             !.l = [l EXCEPT !.Prange[2] = P1, !.p = P1,
                                                             !.Parray = {P1}, !.olast = l.ObjRange[2],
                                                             !.last = "none"]]
            /\ UNCHANGED yi_global
       ELSE LET nan == call.z = call.cap - 1 \/ call.l.flag_min
            IN  /\ call' = Return(call, [Prange |-> IF nan THEN "nan" ELSE "bracket"], call.l)
                /\ yi_global' = IF nan THEN yi_global ELSE SolvedComp
    /\ UNCHANGED <<inp, xi_global>>

(* calc_Prange_yi: calc_phiv finds a vapor below Pv, and the objective is *)
(* negative below r, zero at r, positive above.                            *)

PrangeYiOracles == [Pv : {6, 40, 400}, r : {4, 20, 100}]

\* Lines 1190-1209.
Enter_calc_Prange_yi ==
    /\ call = NoCall
    /\ \E o \in PrangeYiOracles :
          call' = Frame("calc_Prange_yi", PrangeMaxiter,
                        [o |-> o, p |-> 8, Prange |-> <<8, 80>>, ObjRange |-> <<0, 0>>,
                         ObjAt |-> <<0, 0>>, flag_sol |-> FALSE, flag_vapor |-> FALSE])
    /\ UNCHANGED <<inp, xi_global, yi_global>>

\* Lines 1210-1264.
Iter_calc_Prange_yi ==
    /\ call.fn = "calc_Prange_yi"
    /\ call.pc = "loop"
    /\ LET l == call.l
           p == l.p
           obj == Sign3(p, l.o.r)
           vapor == p < l.o.Pv
           l1 == IF call.z = 1 THEN [l EXCEPT !.ObjRange[2] = obj, !.ObjAt[2] = p] ELSE l
       IN  IF call.z = 0
           THEN IF ~vapor THEN call' = Advance(call, TRUE, l)
                ELSE call' = Advance(call, FALSE,
                                     [l EXCEPT !.ObjRange[1] = obj, !.ObjAt[1] = p, !.p = l.Prange[2]])
           ELSE IF ~vapor
           THEN call' = Advance(call, FALSE,
                                [l1 EXCEPT !.flag_vapor = TRUE, !.Prange[2] = p, !.ObjRange[2] = p,
                                           !.ObjAt[2] = 0, !.p = Mid(<<l1.Prange[1], p>>)])
           ELSE IF obj > 0
           THEN call' = Advance(call, TRUE, [NewMax(l1, p, obj) EXCEPT !.flag_sol = TRUE])
           ELSE IF l1.flag_vapor
           THEN call' = Advance(call, FALSE,
                                [l1 EXCEPT !.Prange[1] = p, !.ObjRange[1] = obj, !.ObjAt[1] = p,
                                           !.p = Mid(<<p, l1.Prange[2]>>)])
           ELSE \E k \in {2, 3} :
                   call' = Advance(call, FALSE, [NewMax(l1, p, obj) EXCEPT !.p = k * p])
    /\ UNCHANGED <<inp, xi_global, yi_global>>

After_calc_Prange_yiOnSuccess ==
    /\ call.fn = "calc_Prange_yi"
    /\ call.pc = "after"
    /\ LET last == call.z = call.cap - 1
       IN  /\ call' = Return(call, [Prange |-> IF last \/ ~call.l.flag_sol THEN "nan" ELSE "bracket"], call.l)
           /\ xi_global' = IF ~last /\ call.l.flag_sol THEN SolvedComp ELSE xi_global
    /\ UNCHANGED <<inp, yi_global>>

\* Lines 1266-1278.
After_calc_Prange_yi ==
    /\ call.fn = "calc_Prange_yi"
    /\ call.pc = "after"
    /\ LET last == call.z = call.cap - 1
       IN  /\ call' = Return(call, [Prange |-> IF last \/ ~call.l.flag_sol THEN "nan" ELSE "bracket"], call.l)
           /\ xi_global' = IF ~last /\ ~call.l.flag_sol THEN SolvedComp ELSE xi_global
    /\ UNCHANGED <<inp, yi_global>>

(* bracket_bounding_yi *)

Enter_bracket_bounding_yi ==
    /\ call = NoCall
    /\ \E f0 \in Flags, f1 \in Flags :
          LET c == Frame("bracket_bounding_yi", Maxiter(BracketMaxiter),
                         [flag_bounds |-> <<f0, f1>>, flag_high_vapor |-> FALSE,
                          replaced |-> 0])
          IN  call' = IF f0 = f1 THEN [c EXCEPT !.pc = "after", !.z = c.cap - 1] ELSE c
    /\ UNCHANGED <<inp, xi_global, yi_global>>

\* Lines 1697-1718.  replaced counts the bounds the pass has changed.
Iter_bracket_bounding_yi ==
    /\ call.fn = "bracket_bounding_yi"
    /\ call.pc = "loop"
    /\ \E flagv \in Flags, high \in BOOLEAN, lower \in BOOLEAN, conv \in BOOLEAN :
          LET l == call.l
              fb == l.flag_bounds
              first == IF fb[1] = flagv THEN 1 ELSE 2
          IN  IF ~l.flag_high_vapor
              THEN IF flagv \notin {fb[1], fb[2]}
                   THEN call' = Raise([call EXCEPT !.iters = @ + 1], "IndexError")
                   ELSE IF flagv = "0" /\ high
                   THEN call' = Advance(call, conv, [flag_bounds |-> <<fb[first], flagv>>,
                                                     flag_high_vapor |-> TRUE,
                                                     replaced |-> first])
                   ELSE call' = Advance(call, conv, [l EXCEPT !.replaced = 1])
              ELSE call' = Advance(call, conv,
                                   [l EXCEPT !.flag_bounds = IF lower THEN <<flagv, fb[2]>>
                                                             ELSE <<fb[1], flagv>>,
                                             !.replaced = 1])
    /\ UNCHANGED <<inp, xi_global, yi_global>>

\* Lines 1720-1734.
After_bracket_bounding_yi ==
    /\ call.fn = "bracket_bounding_yi"
    /\ call.pc = "after"
    /\ \E ind \in {1, 2} :
          /\ (Cardinality({k \in {1, 2} : call.l.flag_bounds[k] = "0"}) = 1
                 => call.l.flag_bounds[ind] = "0")
          /\ call' = Return(call, [flagv |-> call.l.flag_bounds[ind]], call.l)
    /\ UNCHANGED <<inp, xi_global, yi_global>>

(* calc_flash *)

\* Ki = Psat / P.  setPsat replaces every NaN saturation pressure, so a
\* K-value is NaN only when P is, and then both are.
FlashKs ==
    {<<NaN, NaN>>} \cup
    {<<a, b>> : a \in {<<1, 2>>, <<3, 2>>, <<3, 1>>}, b \in {<<1, 2>>, <<3, 2>>, <<3, 1>>}}

\* np.where(cond)[0][0], 0-based, over the entries of s; <<>> when none.
WhereFirst(s, Cond(_)) ==
    IF \E i \in 1..Len(s) : Cond(s[i])
    THEN <<(CHOOSE i \in 1..Len(s) : Cond(s[i]) /\ \A j \in 1..(i - 1) : ~Cond(s[j])) - 1>>
    ELSE <<>>

\* Lines 2397-2410: ind is bound only when both K-values are on one side
\* of 1; Ki[Ki<2.0] of two values above 1 may be empty.
FlashInd(K) ==
    IF \A i \in 1..2 : RatLT(One, K[i])
    THEN Bind(SelectSeq(K, LAMBDA k : RatLT(k, <<2, 1>>)), LAMBDA below :
           IF below = <<>> THEN [exc |-> "ValueError", bound |-> FALSE, ind |-> <<>>]
           ELSE [exc |-> "none", bound |-> TRUE,
                 ind |-> WhereFirst(below, LAMBDA k : \A j \in 1..Len(below) : RatLE(below[j], k))])
    ELSE IF \A i \in 1..2 : RatLT(K[i], One)
    THEN [exc |-> "none", bound |-> TRUE,
          ind |-> WhereFirst(K, LAMBDA k : \A j \in 1..2 : RatLE(k, K[j]))]
    ELSE [exc |-> "none", bound |-> FALSE, ind |-> <<>>]

\* Lines 2387-2410: the K-values the iteration starts from.
FlashInit(K) ==
    Bind(IF AnyNaN(K) THEN WhereFirst(K, LAMBDA k : ~IsNaN(k)) ELSE <<>>, LAMBDA nn :
      IF AnyNaN(K) /\ nn = <<>> THEN [exc |-> "IndexError", Ki |-> K]
      ELSE
        Bind(IF ~AnyNaN(K) THEN K
             ELSE IF nn[1] = 0 THEN <<K[1], RatSub(<<2, 1>>, K[1])>>
             ELSE <<RatSub(<<2, 1>>, K[2]), K[2]>>, LAMBDA K1 :
        Bind(FlashInd(K1), LAMBDA f :
          IF f.exc # "none" THEN [exc |-> f.exc, Ki |-> K1]
          ELSE IF ~f.bound /\ ~AnyNaN(K) THEN [exc |-> "UnboundLocalError", Ki |-> K1]
          ELSE Bind(IF f.bound THEN f.ind ELSE nn, LAMBDA ind :
                 IF ind = <<>> THEN [exc |-> "IndexError", Ki |-> K1]
                 ELSE IF ind[1] = 0
                 THEN [exc |-> "none", Ki |-> <<K1[1], RatSub(<<2, 1>>, K1[1])>>]
                 ELSE [exc |-> "none", Ki |-> <<RatSub(<<2, 1>>, K1[2]), K1[2]>>]))))

\* Lines 2368-2411.  Past the first update the K-values are kept by kind:
\* "pos" is NaN-free with a positive entry, "nan" has a NaN.
Enter_calc_flash ==
    /\ call = NoCall
    /\ \E lx \in {2, 3}, K \in FlashKs :
          LET init == FlashInit(K)
              c == Frame("calc_flash", Maxiter(FlashMaxiter),
                         [lx |-> lx,
                          Ki |-> [kind |-> "pos", val |-> init.Ki, from |-> K],
                          Kiprev |-> [kind |-> Unbound, val |-> <<>>, from |-> <<>>],
                          errnan |-> FALSE, warned |-> FALSE])
          IN  call' = IF lx # 2 THEN Raise(c, "ValueError")
                      ELSE IF init.exc # "none" THEN Raise(c, init.exc)
                      ELSE c
    /\ UNCHANGED <<inp, xi_global, yi_global>>

\* Lines 2412-2440.  Kinew is NaN when either density is tagged 3; the
\* comparisons with tol are false on NaN.
Iter_calc_flash ==
    /\ call.fn = "calc_flash"
    /\ call.pc = "loop"
    /\ \E Kinew \in {"pos", "nan"}, t1 \in BOOLEAN, t2 \in BOOLEAN, t3 \in BOOLEAN :
          LET l == call.l
              nan == l.Ki.kind = "nan" \/ Kinew = "nan"
          IN  /\ l.Ki.kind = "nan" => Kinew = "nan"
              /\ call' = IF ~nan /\ ~l.errnan /\ t1 THEN Advance(call, TRUE, l)
                         ELSE IF ~nan /\ t2
                         THEN Advance(call, t3, [l EXCEPT !.errnan = FALSE])
                         ELSE Advance(call, FALSE,
                                      [l EXCEPT !.Kiprev = l.Ki,
                                                !.Ki = [kind |-> Kinew, val |-> <<>>, from |-> <<>>],
                                                !.errnan = nan])
    /\ UNCHANGED <<inp, xi_global, yi_global>>

\* Lines 2442-2450.
After_calc_flash ==
    /\ call.fn = "calc_flash"
    /\ call.pc = "after"
    /\ call' = IF call.z = call.cap - 1
               THEN IF call.l.Kiprev.kind = Unbound THEN Raise(call, "UnboundLocalError")
                    ELSE IF call.l.Kiprev.kind = "nan" THEN Raise(call, "ValueError")
                    ELSE Return(call, <<"xi", "flagl", "yi", "flagv", "err">>,
                                [call.l EXCEPT !.warned = TRUE])
               ELSE Return(call, <<"xi", "flagl", "yi", "flagv", "err">>, call.l)
    /\ UNCHANGED <<inp, xi_global, yi_global>>

(* solve_P_xiT, solve_P_yiT: the objective functions the pressure root     *)
(* finder evaluates once per trial pressure.                               *)

\* What solve_yi_xiT hands back: yinew / np.sum(yinew), a composition or,
\* when the last fugacity coefficients were NaN, zeros divided by zero.
YiReturns == {SolvedComp, <<<<1, 2>>, <<1, 2>>>>, NaNComp}

\* What solve_xi_yiT hands back: xi_tmp, which the code after its loop
\* requires to have a positive entry.
XiReturns == {SolvedComp, <<<<1, 2>>, <<1, 2>>>>}

Trial(fn, read, ret) ==
    [fn |-> fn, pc |-> "done", n |-> IF call = NoCall THEN 1 ELSE call.n + 1,
     read |-> read, ret |-> ret]

\* Lines 1976-1993.
Call_solve_P_xiT ==
    /\ call = NoCall \/ (call.fn = "solve_P_xiT" /\ call.n < MaxTrials)
    /\ \E negP \in BOOLEAN, yinew \in YiReturns :
          IF negP
          THEN /\ call' = Trial("solve_P_xiT", Unset, "10.0")
               /\ UNCHANGED yi_global
          ELSE /\ call' = Trial("solve_P_xiT", yi_global, "obj")
               /\ yi_global' = Normalized(yinew)
    /\ UNCHANGED <<inp, xi_global>>

\* Lines 2027-2043.
Call_solve_P_yiT ==
    /\ call = NoCall \/ (call.fn = "solve_P_yiT" /\ call.n < MaxTrials)
    /\ \E negP \in BOOLEAN, xinew \in XiReturns :
          IF negP
          THEN /\ call' = Trial("solve_P_yiT", Unset, "10.0")
               /\ UNCHANGED xi_global
          ELSE /\ call' = Trial("solve_P_yiT", xi_global, "obj")
               /\ xi_global' = Normalized(xinew)
    /\ UNCHANGED <<inp, yi_global>>

NextLoops ==
    \/ Enter_solve_yi_xiT \/ Iter_solve_yi_xiT \/ After_solve_yi_xiT
    \/ Enter_solve_xi_yiT \/ Iter_solve_xi_yiT \/ After_solve_xi_yiT
    \/ Enter_calc_Prange_xi \/ Iter_calc_Prange_xi \/ After_calc_Prange_xi
    \/ Enter_calc_Prange_yi \/ Iter_calc_Prange_yi \/ After_calc_Prange_yi
    \/ Enter_bracket_bounding_yi \/ Iter_bracket_bounding_yi \/ After_bracket_bounding_yi
    \/ Enter_calc_flash \/ Iter_calc_flash \/ After_calc_flash
    \/ Call_solve_P_xiT \/ Call_solve_P_yiT

SpecLoops == InitLoops /\ [][NextLoops]_vars

-----------------------------------------------------------------------------
(* Properties of the iterative solvers.                                    *)

LoopFns ==
    {"solve_yi_xiT", "solve_xi_yiT", "calc_Prange_xi", "calc_Prange_yi",
     "bracket_bounding_yi", "calc_flash"}

Finished == call.fn # "none" /\ call.pc \in {"done", "raised"}

\* The loop ran every value of its range and never broke out.
Exhausted == call.iters = call.cap /\ ~call.brk

CapOf(fn) ==
    CASE fn = "solve_yi_xiT" -> Maxiter(YiMaxiter)
      [] fn = "solve_xi_yiT" -> Maxiter(XiMaxiter)
      [] fn = "calc_flash" -> Maxiter(FlashMaxiter)
      [] fn = "bracket_bounding_yi" -> Maxiter(BracketMaxiter)
      [] OTHER -> PrangeMaxiter

WithinCap == call.fn \in LoopFns => call.iters <= call.cap /\ call.cap = CapOf(call.fn)

NoReentry ==
    call.fn \in LoopFns =>
        /\ call'.fn = call.fn
        /\ call'.cap = call.cap
        /\ call'.loop >= call.loop
        /\ call'.loop = call.loop => call'.iters >= call.iters
        /\ call.pc # "loop" /\ call'.pc = "loop" => call'.loop > call.loop
        /\ Finished => call' = call

\* Steps the running call can still take: the iterations left in its loop,
\* the code after it, and the second loop of calc_Prange_xi.
Rank(c) ==
    IF c.pc \in {"done", "raised"} THEN 0
    ELSE (IF c.fn = "calc_Prange_xi" /\ c.loop = 1 THEN c.cap + 2 ELSE 0)
         + (IF c.pc = "loop" THEN c.cap - c.iters + 1 ELSE 0) + 1

RankDecreases == call.fn \in LoopFns => Rank(call') < Rank(call) /\ Rank(call') >= 0

C16_FlashExhaustionReturns ==
    (call.fn = "calc_flash" /\ Finished /\ Exhausted /\ call.cap = FlashMaxiter)
        => call.pc = "done" /\ call.l.warned

\* C17: solve_yi_xiT that exhausted its cap and whose least-squares re-solve
\* still has an objective above tolerance returns tag 3 and NaN fugacity
\* coefficients.
C17_FailedResolveReturnsNoStablePhase ==
    (call.fn = "solve_yi_xiT" /\ call.pc = "done" /\ Exhausted
        /\ call.l.lsq /\ call.l.objbad)
        => call.ret.flag = "3" /\ call.ret.phinan

\* C20: in solve_yi_xiT and solve_xi_yiT the least-squares re-solve runs only
\* after the cap was exhausted without convergence, never after an iteration
\* whose convergence test succeeded, and the scan only when the remaining
\* relative error exceeds 10%.
C20_LastResortOnlyOnExhaustion ==
    (call.fn \in {"solve_yi_xiT", "solve_xi_yiT"} /\ call.pc = "done")
        => /\ call.l.lsq => Exhausted
           /\ call.l.conv => ~call.l.lsq
           /\ call.l.scan => call.l.err10

ValidComposition(s) ==
    /\ \A i \in 1..Len(s) : IsFinite(s[i]) /\ RatLE(Zero, s[i])
    /\ Sum(s) = One

\* C13: every value of yi_global (xi_global) that solve_P_xiT (solve_P_yiT)
\* reads as the starting guess of the inner solve is NaN-free, non-negative
\* and sums to 1.
C13_GuessReadIsValid ==
    (call.fn \in {"solve_P_xiT", "solve_P_yiT"} /\ call.read # Unset)
        => ValidComposition(call.read)

\* C21: when find_new_yi returns NaN inside solve_yi_xiT, in whichever
\* iteration, solve_yi_xiT returns without raising, with NaN fugacity
\* coefficients and the tag 3.
C21_FailedScanReturnsNoStablePhase ==
    (call.fn = "solve_yi_xiT" /\ Finished /\ call.l.scanfail)
        => call.pc = "done" /\ call.ret.phinan /\ call.ret.flag = "3"

\* C25: for a composition that does not have two components solve_yi_xiT and
\* solve_xi_yiT call none of find_new_yi, find_new_xi, bracket_bounding_yi
\* and the least-squares re-solve.
C25_NoBinaryRoutineUnlessBinary ==
    (call.fn \in {"solve_yi_xiT", "solve_xi_yiT"} /\ inp.ncomp # 2)
        => ~call.l.helper /\ ~call.l.lsq /\ ~call.l.scan

FlashEntered == call.fn = "calc_flash" /\ call.l.lx = 2 /\ call.iters = 0 /\ call.pc # "after"

\* C26: calc_flash whose two initial K-values are NaN starts the iteration
\* from the split [0.5, 1.5].
C26_NaNKValuesFallBackToSplit ==
    (FlashEntered /\ call.l.Ki.from = <<NaN, NaN>>)
        => call.pc = "loop" /\ call.l.Ki.val = <<<<1, 2>>, <<3, 2>>>>

\* C27: calc_flash on a binary system with NaN-free initial K-values reaches
\* the iteration without error, and K-values on opposite sides of 1 are the
\* ones the iteration starts from.
C27_NaNFreeKValuesReachIteration ==
    (FlashEntered /\ ~AnyNaN(call.l.Ki.from))
        => /\ call.pc = "loop"
           /\ (\E i \in 1..2 : RatLT(call.l.Ki.from[i], One) /\ RatLT(One, call.l.Ki.from[3 - i]))
                 => call.l.Ki.val = call.l.Ki.from

\* C29: every bisection step of bracket_bounding_yi replaces exactly one
\* bound by the midpoint, whatever tag the midpoint evaluation returns.
C29_BisectionReplacesOneBound ==
    (call.fn = "bracket_bounding_yi" /\ call.iters >= 1)
        => call.exc = "none" /\ call.l.replaced = 1

\* C23: when calc_Prange_yi reports success, Prange[0] < Prange[1], the
\* objective recorded for Prange[0] is non-positive and the one recorded for
\* Prange[1] is positive, each evaluated at that end's pressure.
C23_VaporBracketChangesSign ==
    (call.fn = "calc_Prange_yi" /\ call.pc = "done" /\ call.ret.Prange = "bracket")
        => /\ call.l.Prange[1] < call.l.Prange[2]
           /\ call.l.ObjRange[1] <= 0
           /\ call.l.ObjRange[2] > 0
           /\ call.l.ObjAt = call.l.Prange

C28_MinPressureLoopMoves ==
    (call.fn = "calc_Prange_xi" /\ call.loop = 1 /\ call.pc = "loop" /\ call.iters >= 1)
        => /\ call.l.p # call.l.prev
           /\ call.l.last = "philnan" => call.l.p > call.l.prev
           /\ (call.l.last = "neg" /\ call.iters = 1) => call.l.p < call.l.prev

\* C30: calc_xT_phase and calc_yT_phase leave the caller's zi_opts dictionary
\* as it was passed.
C30_ZiOptsUnchanged ==
    call.fn \in {"calc_xT_phase", "calc_yT_phase"}
        => call.zi_opts.left = call.zi_opts.passed

====
